---- MODULE Spec2Model ----
(***************************************************************************)
(* Market-price analytics of the APMC service                              *)
(* (backend/app/services/apmc_service.py): the price store, cross-market   *)
(* comparison, best-market recommendation and price-trend analysis        *)
(* (Spec); the sell advisory through the year (SpecAdvisory); the refresh  *)
(* of the store from the data.gov.in feed on the event loop (SpecRefresh); *)
(* the TTL cache of the feed called from several threads (SpecCache); the  *)
(* statistics, outlier and daily-history helpers in double arithmetic      *)
(* (SpecAnalytics); the best-selling window through the twelve months      *)
(* (SpecWindow); and the rate limiter of                                   *)
(* backend/app/middleware/rate_limiter.py (SpecLimiter).                   *)
(*                                                                         *)
(* Units.  Prices and costs are integers in hundredths of a rupee (the     *)
(* code rounds them to 2 decimals).  Timestamps are integers in ticks,     *)
(* TicksPerDay ticks to a calendar day.  A great-circle distance is an     *)
(* integer in metres; the reported distance_km, which the code rounds to   *)
(* 1 decimal, is an integer in tenths of a kilometre.  Percentages are     *)
(* integers in hundredths of a percent.  Coordinates are integers in       *)
(* 1e-4 degrees.  Python's None is "" for an optional string (the code     *)
(* tests optional strings by truthiness, so None and "" behave alike),     *)
(* NoLocation for the optional coordinate pair and NoDistance for the      *)
(* optional distance.  In SpecAnalytics a price has three decimals and is  *)
(* given in thousandths of a rupee, and a Python float is an IEEE 754      *)
(* double computed exactly (section Floating point).  The clock of the     *)
(* rate limiter is in ticks, TicksPerSecond ticks to a second.             *)
(***************************************************************************)
EXTENDS Integers, Sequences, FiniteSets, TLC

VARIABLES
    store,      \* rows of table mandi_prices, in primary-key (insertion) order
    now,        \* datetime.now(timezone.utc), in ticks
    tiebreak,   \* how the database engine orders rows equal on the ORDER BY key
    result,     \* the response of the request handled last
    api_key,    \* whether settings.DATA_GOV_IN_API_KEY is set
    cache,      \* _api_cache._store: each key's (cached_at, data), or None
    lock,       \* _api_cache._lock: the thread that holds it, 0 when free
    calls,      \* the refresh requests in progress on the event loop
    threads,    \* the threads that call the cache, each with its position
    last_put,   \* each key's latest put that no clear has followed
    sample,     \* the observations, or daily averages, handed to a helper
    requests,   \* RateLimitMiddleware._requests: each client's timestamps
    admitted,   \* each client's requests let through so far, with their times
    clock       \* time.time(), in ticks

vars == <<store, now, tiebreak, result, api_key, cache, lock, calls, threads, last_put,
          sample, requests, admitted, clock>>

\* What the price queries leave alone: the feed cache and its callers.
feedVars == <<api_key, cache, lock, calls, threads, last_put>>

\* What the price store, the feed and the cache leave alone: the input of the
\* analytics helpers and the rate limiter.
restVars == <<sample, requests, admitted, clock>>

-----------------------------------------------------------------------------
(* Bounds of the model *)

MaxStore == 3       \* rows the store may hold
TicksPerDay == 2    \* clock resolution
Now0 == 100         \* the clock when the service starts, in days
MaxTicks == 1       \* how far the clock advances, in ticks
MaxFeedTicks == 3   \* how far the clock advances while the cache is in use

-----------------------------------------------------------------------------
(* Program constants *)

\* TRANSPORT_COST_PER_KM_PER_QUINTAL = 2.5 rupees per km, that is 25
\* hundredths of a rupee per tenth of a kilometre.
TRANSPORT_COST_PER_KM_PER_QUINTAL == 25

\* APMC_COORDINATES: the markets of the table that the model uses.
APMC_COORDINATES ==
    [m \in {"Azadpur Mandi", "Karnal Mandi"} |->
        IF m = "Azadpur Mandi" THEN [lat |-> 287041, lon |-> 771788]
                               ELSE [lat |-> 296857, lon |-> 769905]]

\* TREND_STABLE_THRESHOLD_PERCENT = 2.0 percent
TREND_STABLE_THRESHOLD_PERCENT == 200

NoLocation == [lat |-> 0 - 999999, lon |-> 0 - 999999]
NoDistance == 0 - 1
None == [None |-> TRUE]

-----------------------------------------------------------------------------
(* Inputs *)

StartTick == Now0 * TicksPerDay

\* Price observations that seeding, bulk import or a feed refresh may store.
\* Nothing checks arrival_date against the clock: the feed's dates are parsed
\* as midnight UTC, so a record of the current Indian day can be dated after
\* now.  A price of 0 is what a feed record without modal and max price gets.
\* "Unknown Market" is the name _parse_data_gov_record gives every record of
\* the feed that has no market name, whatever its state.
Observations ==
    { [commodity |-> "Wheat", mandi_name |-> "Azadpur Mandi", state |-> "Delhi",
       price_per_quintal |-> 220000, arrival_date |-> StartTick - 1],
      [commodity |-> "Wheat", mandi_name |-> "Karnal Mandi", state |-> "Haryana",
       price_per_quintal |-> 235000, arrival_date |-> StartTick - 1],
      [commodity |-> "Wheat", mandi_name |-> "Azadpur Mandi", state |-> "Delhi",
       price_per_quintal |-> 235000, arrival_date |-> StartTick - 1],
      [commodity |-> "Wheat", mandi_name |-> "Azadpur Mandi", state |-> "Delhi",
       price_per_quintal |-> 215000, arrival_date |-> StartTick - 10 * TicksPerDay],
      [commodity |-> "wheat", mandi_name |-> "Unknown Market", state |-> "Delhi",
       price_per_quintal |-> 220000, arrival_date |-> StartTick - 40 * TicksPerDay],
      [commodity |-> "Wheat", mandi_name |-> "Unknown Market", state |-> "Haryana",
       price_per_quintal |-> 235000, arrival_date |-> StartTick - 1],
      [commodity |-> "Wheat", mandi_name |-> "Karnal Mandi", state |-> "Haryana",
       price_per_quintal |-> 0, arrival_date |-> StartTick - TicksPerDay],
      [commodity |-> "Wheat", mandi_name |-> "Karnal Mandi", state |-> "Haryana",
       price_per_quintal |-> 231000, arrival_date |-> StartTick + TicksPerDay + 1],
      [commodity |-> "Wheat", mandi_name |-> "Azadpur Mandi", state |-> "Delhi",
       price_per_quintal |-> 219309, arrival_date |-> StartTick - 2 * TicksPerDay],
      [commodity |-> "Rice", mandi_name |-> "Azadpur Mandi", state |-> "Delhi",
       price_per_quintal |-> 320000, arrival_date |-> StartTick - 1] }

QueryCommodities == {"WHEAT", "Rice"}
QueryStates == {"", "delhi"}
QueryMandiNames == { <<>>, <<" karnal mandi", "AZADPUR MANDI">> }
\* (28.7, 77.1) and (28.7861, 76.9905)
UserLocations == { [lat |-> 287000, lon |-> 771000], [lat |-> 287861, lon |-> 769905] }
QueryMaxDistanceKm == {100, 500}
QueryDays == {7, 30}

-----------------------------------------------------------------------------
(* String and arithmetic helpers *)

\* str.lower() on the strings of the model.
Lower(s) ==
    CASE s = "Wheat" -> "wheat"
      [] s = "WHEAT" -> "wheat"
      [] s = "Rice" -> "rice"
      [] s = "Tomato" -> "tomato"
      [] s = "Onion" -> "onion"
      [] s = "Mustard" -> "mustard"
      [] s = "Delhi" -> "delhi"
      [] s = "Haryana" -> "haryana"
      [] s = "Azadpur Mandi" -> "azadpur mandi"
      [] s = "AZADPUR MANDI" -> "azadpur mandi"
      [] s = "Karnal Mandi" -> "karnal mandi"
      [] s = "Unknown Market" -> "unknown market"
      [] OTHER -> s

\* str.strip() on the strings of the model.
Strip(s) ==
    CASE s = " karnal mandi" -> "karnal mandi"
      [] OTHER -> s

Abs(x) == IF x < 0 THEN 0 - x ELSE x

\* round(a / b) for b > 0: to the nearest integer, a tie to the even one.
Round(a, b) ==
    LET q == a \div b
        r == a % b
    IN  IF 2 * r < b THEN q
        ELSE IF 2 * r > b THEN q + 1
        ELSE IF q % 2 = 0 THEN q ELSE q + 1

\* round(a / b * 100, 2) for b > 0, in hundredths of a percent: a * 10000 / b
\* by long division, so that no intermediate value leaves the 32-bit range.
Percent(a, b) ==
    LET q1 == a \div b
        r1 == a % b
        q2 == (r1 * 100) \div b
        r2 == (r1 * 100) % b
        q3 == (r2 * 100) \div b
        r3 == (r2 * 100) % b
        q == (q1 * 100 + q2) * 100 + q3
    IN  IF 2 * r3 < b THEN q
        ELSE IF 2 * r3 > b THEN q + 1
        ELSE IF q % 2 = 0 THEN q ELSE q + 1

SetMax(S) == CHOOSE x \in S : \A y \in S : y <= x
SetMin(S) == CHOOSE x \in S : \A y \in S : x <= y

RECURSIVE SeqSum(_)
SeqSum(s) == IF s = <<>> THEN 0 ELSE Head(s) + SeqSum(Tail(s))

Range(s) == { s[i] : i \in DOMAIN s }

\* The index sequence that lists the set S of row ids in ascending order.
RECURSIVE AscIds(_)
AscIds(S) ==
    IF S = {} THEN <<>>
    ELSE LET m == SetMin(S) IN <<m>> \o AscIds(S \ {m})

\* list.sort(key=..., reverse=True) on the sequence of sort keys: the
\* permutation that puts the keys in descending order; positions with equal
\* keys keep their original relative order (reverse=True keeps stability).
SortDescending(keys) ==
    LET n == Len(keys)
        pos(i) == 1 + Cardinality({ j \in 1..n :
                        \/ keys[j] > keys[i]
                        \/ keys[j] = keys[i] /\ j < i })
    IN  [k \in 1..n |-> CHOOSE i \in 1..n : pos(i) = k]

-----------------------------------------------------------------------------
(* Price store queries *)

\* The base query without its commodity filter.
BaseQueryStateOnly(commodity, state) ==
    { i \in DOMAIN store :
        state # "" => Lower(store[i].state) = Lower(state) }

\* filter(func.lower(commodity) == commodity.lower()) and, if state, the
\* same on state: the ids of the rows of the base query, in scan order.
BaseQuery(commodity, state) ==
    { i \in DOMAIN store :
        /\ Lower(store[i].commodity) = Lower(commodity)
        /\ state # "" => Lower(store[i].state) = Lower(state) }

\* with_entities(mandi_name).distinct().all(): each name once, in the order
\* the table scan, which runs in primary-key order, first meets it.
DistinctMandis(ids) ==
    LET first == { i \in ids :
                     \A j \in ids : store[j].mandi_name = store[i].mandi_name => i <= j }
        order == AscIds(first)
    IN  [k \in DOMAIN order |-> store[order[k]].mandi_name]

\* The row the engine yields first among `ids`, all equal on the ORDER BY key.
FirstOfTies(ids) == IF tiebreak = "asc" THEN SetMin(ids) ELSE SetMax(ids)

\* The first row in ascending order of arrival_date: the oldest observation.
OldestFirst(commodity, mandi_name) ==
    LET rows == { i \in DOMAIN store :
                    /\ Lower(store[i].commodity) = Lower(commodity)
                    /\ store[i].mandi_name = mandi_name }
        bottom == { i \in rows : \A j \in rows :
                    store[i].arrival_date <= store[j].arrival_date }
    IN  IF rows = {} THEN 0 ELSE FirstOfTies(bottom)

\* filter(lower(commodity) == ..., mandi_name == ...)
\*   .order_by(arrival_date.desc()).first(): a row id, or 0 for None.
Latest(commodity, mandi_name) ==
    LET rows == { i \in DOMAIN store :
                    /\ Lower(store[i].commodity) = Lower(commodity)
                    /\ store[i].mandi_name = mandi_name }
        top == { i \in rows : \A j \in rows :
                    store[j].arrival_date <= store[i].arrival_date }
    IN  IF rows = {} THEN 0 ELSE FirstOfTies(top)

-----------------------------------------------------------------------------
(* Price comparison *)

WorstEntryFirst(prices, entries) ==
    LET best == entries[Len(entries)]
        worst == entries[1]
        spread == best.latest_price - worst.latest_price
    IN  [ average_price |-> Round(SeqSum(prices), Len(prices)),
          price_range |-> [min |-> SetMin(Range(prices)), max |-> SetMax(Range(prices))],
          price_spread |-> spread,
          price_spread_percent |->
              IF worst.latest_price > 0
              THEN Percent(spread, worst.latest_price) ELSE 0,
          best_apmc |-> best.mandi_name,
          worst_apmc |-> worst.mandi_name ]

_build_comparison_analytics(prices, entries) ==
    LET best == entries[1]
        worst == entries[Len(entries)]
        spread == best.latest_price - worst.latest_price
    IN  [ average_price |-> Round(SeqSum(prices), Len(prices)),
          price_range |-> [min |-> SetMin(Range(prices)), max |-> SetMax(Range(prices))],
          price_spread |-> spread,
          price_spread_percent |->
              IF worst.latest_price > 0
              THEN Percent(spread, worst.latest_price) ELSE 0,
          best_apmc |-> best.mandi_name,
          worst_apmc |-> worst.mandi_name ]

\* Descending by price, but entries of equal price in reversed order (what
\* reversing an ascending sort would give).
SortByPriceTiesReversed(results) ==
    LET n == Len(results)
        pos(i) == 1 + Cardinality({ j \in 1..n :
                        \/ results[j].latest_price > results[i].latest_price
                        \/ results[j].latest_price = results[i].latest_price /\ j > i })
    IN  [k \in 1..n |-> results[CHOOSE i \in 1..n : pos(i) = k]]

\* results.sort(key=lambda x: x["latest_price"], reverse=True)
SortByPrice(results) ==
    LET order == SortDescending([k \in DOMAIN results |-> results[k].latest_price])
    IN  [k \in DOMAIN order |-> results[order[k]]]

\* The entry compare_prices builds from the row `latest`.
CompareEntry(latest) ==
    [ mandi_name |-> store[latest].mandi_name,
      state |-> store[latest].state,
      latest_price |-> store[latest].price_per_quintal,
      arrival_date |-> store[latest].arrival_date ]

\* The names of the market query of compare_prices, in query order.
CompareMandiList(commodity, mandi_names, state) ==
    LET base == BaseQuery(commodity, state)
        lower_names == { Strip(Lower(mandi_names[k])) : k \in DOMAIN mandi_names }
    IN  IF mandi_names # <<>>
        THEN DistinctMandis({ i \in base : Lower(store[i].mandi_name) \in lower_names })
        ELSE DistinctMandis(base)

compare_prices(commodity, mandi_names, state) ==
    LET mandi_list == CompareMandiList(commodity, mandi_names, state)
        found == SelectSeq(mandi_list, LAMBDA m : Latest(commodity, m) # 0)
        results == [k \in DOMAIN found |-> CompareEntry(Latest(commodity, found[k]))]
        sorted == SortByPrice(results)
        prices == [k \in DOMAIN sorted |-> sorted[k].latest_price]
    IN  [ op |-> "compare",
          commodity |-> commodity,
          mandi_names |-> mandi_names,
          state_filter |-> state,
          mandi_list |-> mandi_list,
          total_apmcs |-> Len(sorted),
          apmcs |-> sorted,
          analytics |-> IF results = <<>> THEN None
                        ELSE _build_comparison_analytics(prices, sorted) ]

-----------------------------------------------------------------------------
(* Distance *)

\* haversine_distance(lat1, lon1, lat2, lon2) with EARTH_RADIUS_KM = 6371.0,
\* in metres.  The formula is trigonometric; these are its values, to the
\* metre, at the user locations and market coordinates of the model
\* (7.699 km, 110.119 km, 20.497 km and 100.031 km).
haversine_distance(lat1, lon1, lat2, lon2) ==
    CASE <<lat1, lon1, lat2, lon2>> = <<287000, 771000, 287041, 771788>> -> 7699
      [] <<lat1, lon1, lat2, lon2>> = <<287000, 771000, 296857, 769905>> -> 110119
      [] <<lat1, lon1, lat2, lon2>> = <<287861, 769905, 287041, 771788>> -> 20497
      [] <<lat1, lon1, lat2, lon2>> = <<287861, 769905, 296857, 769905>> -> 100031

-----------------------------------------------------------------------------
(* Best market recommendation *)

\* Ranking by the raw market price instead of the net price.
SortByRawPrice(recommendations) ==
    LET order == SortDescending([k \in DOMAIN recommendations |->
                                    recommendations[k].latest_price])
    IN  [k \in DOMAIN order |-> recommendations[order[k]]]

\* recommendations.sort(key=lambda x: x["net_price_per_quintal"], reverse=True)
SortByNetPrice(recommendations) ==
    LET order == SortDescending([k \in DOMAIN recommendations |->
                                    recommendations[k].net_price_per_quintal])
    IN  [k \in DOMAIN order |-> recommendations[order[k]]]

\* The recommendation of find_best_apmc for the row `latest`, given the
\* distance (or NoDistance) and the transport cost.
Recommendation(latest, distance_km, transport_cost) ==
    [ mandi_name |-> store[latest].mandi_name,
      state |-> store[latest].state,
      latest_price |-> store[latest].price_per_quintal,
      distance_km |-> distance_km,
      transport_cost_per_quintal |-> transport_cost,
      net_price_per_quintal |-> store[latest].price_per_quintal - transport_cost,
      arrival_date |-> store[latest].arrival_date ]

\* distance_km of find_best_apmc: round(haversine_distance(...), 1).
DistanceKm(mandi_name, loc) ==
    Round(haversine_distance(loc.lat, loc.lon,
                             APMC_COORDINATES[mandi_name].lat,
                             APMC_COORDINATES[mandi_name].lon), 100)

\* A market without coordinates is kept, at unknown distance and no cost.
BestEntryFailOpen(mandi_name, latest, loc, max_distance_km) ==
    IF loc # NoLocation /\ mandi_name \in DOMAIN APMC_COORDINATES
    THEN LET distance_km == DistanceKm(mandi_name, loc)
         IN  IF distance_km > max_distance_km * 10 THEN <<>>
             ELSE <<Recommendation(latest, distance_km,
                        distance_km * TRANSPORT_COST_PER_KM_PER_QUINTAL)>>
    ELSE <<Recommendation(latest, NoDistance, 0)>>

\* A market without coordinates is skipped even when no location is given.
BestEntryCoordinateRequired(mandi_name, latest, loc, max_distance_km) ==
    IF mandi_name \notin DOMAIN APMC_COORDINATES THEN <<>>
    ELSE IF loc = NoLocation THEN <<Recommendation(latest, NoDistance, 0)>>
    ELSE LET distance_km == DistanceKm(mandi_name, loc)
         IN  IF distance_km > max_distance_km * 10 THEN <<>>
             ELSE <<Recommendation(latest, distance_km,
                        distance_km * TRANSPORT_COST_PER_KM_PER_QUINTAL)>>

\* The body of the loop of find_best_apmc for the row `latest` of market
\* `mandi_name`: the recommendation appended, or <<>> when the loop continues.
BestEntry(mandi_name, latest, loc, max_distance_km) ==
    LET has_coord == mandi_name \in DOMAIN APMC_COORDINATES
        distance_km == IF loc # NoLocation /\ has_coord
                       THEN DistanceKm(mandi_name, loc) ELSE NoDistance
        transport_cost == IF distance_km # NoDistance
                          THEN distance_km * TRANSPORT_COST_PER_KM_PER_QUINTAL ELSE 0
    IN  IF loc # NoLocation
        THEN IF has_coord
             THEN IF distance_km > max_distance_km * 10 THEN <<>>
                  ELSE <<Recommendation(latest, distance_km, transport_cost)>>
             ELSE <<>>
        ELSE <<Recommendation(latest, distance_km, transport_cost)>>

RECURSIVE BestLoop(_, _, _, _)
BestLoop(mandis, commodity, loc, max_distance_km) ==
    IF mandis = <<>> THEN <<>>
    ELSE LET latest == Latest(commodity, Head(mandis))
             rest == BestLoop(Tail(mandis), commodity, loc, max_distance_km)
         IN  IF latest = 0 THEN rest
             ELSE BestEntry(Head(mandis), latest, loc, max_distance_km) \o rest

find_best_apmc(commodity, loc, max_distance_km, state) ==
    LET distinct_mandis == DistinctMandis(BaseQuery(commodity, state))
        recommendations == BestLoop(distinct_mandis, commodity, loc, max_distance_km)
        sorted == SortByNetPrice(recommendations)
        ranked == [k \in DOMAIN sorted |->
                     [ mandi_name |-> sorted[k].mandi_name,
                       state |-> sorted[k].state,
                       latest_price |-> sorted[k].latest_price,
                       distance_km |-> sorted[k].distance_km,
                       transport_cost_per_quintal |-> sorted[k].transport_cost_per_quintal,
                       net_price_per_quintal |-> sorted[k].net_price_per_quintal,
                       arrival_date |-> sorted[k].arrival_date,
                       rank |-> k ]]
    IN  [ op |-> "best",
          commodity |-> commodity,
          user_location |-> loc,
          max_distance_km |-> max_distance_km,
          state_filter |-> state,
          distinct_mandis |-> distinct_mandis,
          total_apmcs |-> Len(ranked),
          recommendations |-> ranked ]

-----------------------------------------------------------------------------
(* Price trend analysis *)

\* _classify_trend, with the change in hundredths of a percent.
_classify_trend(change_pct) ==
    IF change_pct > TREND_STABLE_THRESHOLD_PERCENT THEN "up"
    ELSE IF change_pct < 0 - TREND_STABLE_THRESHOLD_PERCENT THEN "down"
    ELSE "stable"

\* order_by(arrival_date.asc()).all() over the rows `ids`: a sequence of ids.
OrderByArrivalAsc(ids) ==
    LET before(j, i) ==
            \/ store[j].arrival_date < store[i].arrival_date
            \/ /\ store[j].arrival_date = store[i].arrival_date
               /\ IF tiebreak = "asc" THEN j < i ELSE j > i
        pos(i) == 1 + Cardinality({ j \in ids : before(j, i) })
    IN  [k \in 1..Cardinality(ids) |-> CHOOSE i \in ids : pos(i) = k]

\* strftime("%Y-%m-%d") of a timestamp: its calendar day.
DateOf(ts) == ts \div TicksPerDay

\* The rows of get_price_trends that the requested window keeps.
Windowed(query, cutoff) ==
    { i \in query : store[i].arrival_date >= cutoff }

\* The daily grouping of the rows `prices`, ascending by date.
PriceHistory(prices) ==
    LET dates == { DateOf(store[prices[k]].arrival_date) : k \in DOMAIN prices }
        order == AscIds(dates)
        day(d) == SelectSeq(prices, LAMBDA i : DateOf(store[i].arrival_date) = d)
        day_prices(d) == [k \in DOMAIN day(d) |-> store[day(d)[k]].price_per_quintal]
    IN  [k \in DOMAIN order |->
            [ date |-> order[k],
              avg_price |-> Round(SeqSum(day_prices(order[k])), Len(day_prices(order[k]))),
              min_price |-> SetMin(Range(day_prices(order[k]))),
              max_price |-> SetMax(Range(day_prices(order[k]))),
              records |-> Len(day_prices(order[k])) ]]

\* The split-period change of a price history of at least 2 days.
ChangePercent(price_history) ==
    LET n == Len(price_history)
        mid == n \div 2
        avg == [k \in 1..n |-> price_history[k].avg_price]
        first_sum == SeqSum(SubSeq(avg, 1, mid))
        second_sum == SeqSum(SubSeq(avg, mid + 1, n))
    IN  IF first_sum > 0
        THEN Percent(second_sum * mid - first_sum * (n - mid),
                     first_sum * (n - mid))
        ELSE 0

\* The count, mean, min and max of _calculate_statistics for prices of two
\* decimals given in hundredths, the mean rounded from the exact quotient:
\* the figures of the statistics that get_sell_advisory reads.
StatisticsOfHundredths(values) ==
    IF values = <<>> THEN None
    ELSE [ count |-> Len(values),
           mean |-> Round(SeqSum(values), Len(values)),
           min |-> SetMin(Range(values)),
           max |-> SetMax(Range(values)) ]

\* max(prices, key=price) and min(prices, key=price): the first such row.
HighestRow(prices) ==
    prices[SetMin({ k \in DOMAIN prices : \A j \in DOMAIN prices :
        store[prices[j]].price_per_quintal <= store[prices[k]].price_per_quintal })]

LowestRow(prices) ==
    prices[SetMin({ k \in DOMAIN prices : \A j \in DOMAIN prices :
        store[prices[j]].price_per_quintal >= store[prices[k]].price_per_quintal })]

get_price_trends(commodity, state, days) ==
    LET cutoff == now - days * TicksPerDay
        query == BaseQuery(commodity, state)
        windowed == Windowed(query, cutoff)
        using_full_range == windowed = {}
        prices == IF using_full_range THEN OrderByArrivalAsc(query)
                                      ELSE OrderByArrivalAsc(windowed)
        price_history == PriceHistory(prices)
        change_pct == IF Len(price_history) >= 2 THEN ChangePercent(price_history) ELSE 0
    IN  IF prices = <<>>
        THEN [ op |-> "trends",
               commodity |-> commodity,
               state_filter |-> state,
               period_days |-> days,
               data_points |-> 0,
               message |-> "No price data found for this commodity" ]
        ELSE [ op |-> "trends",
               commodity |-> commodity,
               state_filter |-> state,
               period_days |-> days,
               using_full_range |-> using_full_range,
               data_points |-> Len(prices),
               unique_dates |-> Len(price_history),
               trend |-> IF Len(price_history) >= 2 THEN _classify_trend(change_pct)
                         ELSE "insufficient_data",
               change_percent |-> change_pct,
               statistics |-> StatisticsOfHundredths(
                   [k \in DOMAIN prices |-> store[prices[k]].price_per_quintal]),
               price_history |-> price_history,
               highest_price_mandi |-> store[HighestRow(prices)],
               lowest_price_mandi |-> store[LowestRow(prices)],
               prices |-> prices ]

-----------------------------------------------------------------------------
(* Floating point.  A Python float is an IEEE 754 double: MantissaBits
   significant bits, every operation rounded to the nearest double, ties to
   the even one.  A non-negative double is the natural number
   value * 2^Scale; a natural number is the sequence of its digits in base
   Limb, the least significant first and the most significant not 0, so
   that no product of two digits leaves the range of the integers. *)

LimbBits == 15
Limb == 2^LimbBits
MantissaBits == 53
Scale == 5 * LimbBits

RECURSIVE Trim(_)
Trim(x) ==
    IF x = <<>> THEN <<>>
    ELSE IF x[Len(x)] = 0 THEN Trim(SubSeq(x, 1, Len(x) - 1))
    ELSE x

\* The digits of an integer n >= 0, and back.
RECURSIVE BigOf(_)
BigOf(n) == IF n = 0 THEN <<>> ELSE <<n % Limb>> \o BigOf(n \div Limb)

RECURSIVE BigInt(_)
BigInt(x) == IF x = <<>> THEN 0 ELSE Head(x) + Limb * BigInt(Tail(x))

RECURSIVE AddCarry(_, _, _)
AddCarry(x, y, c) ==
    IF x = <<>> /\ y = <<>> THEN (IF c = 0 THEN <<>> ELSE <<c>>)
    ELSE LET a == IF x = <<>> THEN 0 ELSE Head(x)
             b == IF y = <<>> THEN 0 ELSE Head(y)
             t == a + b + c
         IN  <<t % Limb>> \o AddCarry(IF x = <<>> THEN <<>> ELSE Tail(x),
                                      IF y = <<>> THEN <<>> ELSE Tail(y),
                                      t \div Limb)

BigAdd(x, y) == AddCarry(x, y, 0)

\* x - y for x >= y.
RECURSIVE SubBorrow(_, _, _)
SubBorrow(x, y, b) ==
    IF x = <<>> THEN <<>>
    ELSE LET s == Head(x) - (IF y = <<>> THEN 0 ELSE Head(y)) - b
         IN  <<(s + Limb) % Limb>> \o
             SubBorrow(Tail(x), IF y = <<>> THEN <<>> ELSE Tail(y),
                       IF s < 0 THEN 1 ELSE 0)

BigSub(x, y) == Trim(SubBorrow(x, y, 0))

\* x * k for a digit k.
RECURSIVE MulCarry(_, _, _)
MulCarry(x, k, c) ==
    IF x = <<>> THEN (IF c = 0 THEN <<>> ELSE <<c>>)
    ELSE LET t == Head(x) * k + c
         IN  <<t % Limb>> \o MulCarry(Tail(x), k, t \div Limb)

BigMulSmall(x, k) == IF k = 0 THEN <<>> ELSE MulCarry(x, k, 0)

\* x * y, added to `sum`, the digits of y taken one by one: `zeros` shifts
\* the product of x and the digit to the place of the digit.
RECURSIVE MulAdd(_, _, _, _)
MulAdd(x, y, zeros, sum) ==
    IF y = <<>> THEN sum
    ELSE LET partial == IF Head(y) = 0 THEN sum
                        ELSE BigAdd(sum, zeros \o BigMulSmall(x, Head(y)))
         IN  IF partial = <<>> THEN MulAdd(x, Tail(y), zeros \o <<0>>, <<>>)
             ELSE MulAdd(x, Tail(y), zeros \o <<0>>, partial)

BigMul(x, y) == IF x = <<>> THEN <<>> ELSE MulAdd(x, y, <<>>, <<>>)

RECURSIVE BigLess(_, _)
BigLess(x, y) ==
    IF Len(x) # Len(y) THEN Len(x) < Len(y)
    ELSE IF x = <<>> THEN FALSE
    ELSE IF x[Len(x)] # y[Len(y)] THEN x[Len(x)] < y[Len(y)]
    ELSE BigLess(SubSeq(x, 1, Len(x) - 1), SubSeq(y, 1, Len(y) - 1))

\* The quotient and the remainder of x by n, for 0 < n < Limb.
RECURSIVE DivRem(_, _)
DivRem(x, n) ==
    IF x = <<>> THEN [q |-> <<>>, r |-> 0]
    ELSE LET hi == DivRem(Tail(x), n)
             cur == hi.r * Limb + Head(x)
         IN  [q |-> <<cur \div n>> \o hi.q, r |-> cur % n]

BigDivSmall(x, n) == Trim(DivRem(x, n).q)

RECURSIVE BitsOf(_)
BitsOf(n) == IF n = 0 THEN 0 ELSE 1 + BitsOf(n \div 2)

\* The number of binary digits of x.
Bits(x) == IF x = <<>> THEN 0 ELSE LimbBits * (Len(x) - 1) + BitsOf(x[Len(x)])

\* x * 2^k and x \div 2^k.
ShiftLeft(x, k) ==
    IF x = <<>> THEN <<>>
    ELSE [i \in 1..(k \div LimbBits) |-> 0] \o BigMulSmall(x, 2^(k % LimbBits))

ShiftRight(x, k) ==
    IF k \div LimbBits >= Len(x) THEN <<>>
    ELSE BigDivSmall(SubSeq(x, k \div LimbBits + 1, Len(x)), 2^(k % LimbBits))

\* The natural number nearest to num / (n * 2^d), the even one of two
\* equally near.
RoundHalfEven(num, n, d) ==
    LET double == BigAdd(num, num)
        twice == BigDivSmall(ShiftRight(double, d), n)
        exact == ShiftLeft(BigMulSmall(twice, n), d) = double
        half == BigDivSmall(twice, 2)
        odd(z) == z # <<>> /\ Head(z) % 2 = 1
    IN  IF odd(twice) /\ (~exact \/ odd(half)) THEN BigAdd(half, <<1>>) ELSE half

\* The double nearest to num / n in units of 2^-Scale: the result of a
\* floating-point operation whose exact result is num / n.
Float(num, n) ==
    IF num = <<>> THEN <<>>
    ELSE LET bits == Bits(BigDivSmall(num, n))
             d == IF bits > MantissaBits THEN bits - MantissaBits ELSE 0
         IN  ShiftLeft(RoundHalfEven(num, n, d), d)

\* float("p.ddd") for a price written with three decimals, given in
\* thousandths.
FloatOfThousandths(k) == Float(ShiftLeft(BigOf(k), Scale), 1000)

\* round(x, 2) of a double, in hundredths: Python rounds the exact value of
\* the double.
Round2(x) == BigInt(RoundHalfEven(BigMulSmall(x, 100), 1, Scale))

\* sum(values): the doubles are added one by one from 0, each partial sum
\* rounded before the next addition.
RECURSIVE FloatSum(_, _)
FloatSum(values, start) ==
    IF values = <<>> THEN start
    ELSE LET partial == Float(BigAdd(start, Head(values)), 1)
         IN  IF partial = <<>> THEN FloatSum(Tail(values), <<>>)
             ELSE FloatSum(Tail(values), partial)

\* sorted(values).
SortedFloats(values) ==
    LET before(j, i) ==
            \/ BigLess(values[j], values[i])
            \/ values[j] = values[i] /\ j < i
        pos(i) == 1 + Cardinality({ j \in DOMAIN values : before(j, i) })
    IN  [k \in DOMAIN values |-> values[CHOOSE i \in DOMAIN values : pos(i) = k]]

\* The smallest r in lo..hi with lhs < (2r + 1)^2 * unit: the square root of
\* lhs / (4 * unit), rounded to the nearest natural number.
RECURSIVE RoundedRoot(_, _, _, _)
RoundedRoot(lo, hi, lhs, unit) ==
    IF lo >= hi THEN lo
    ELSE LET mid == (lo + hi) \div 2
             t == BigOf(2 * mid + 1)
         IN  IF BigLess(lhs, BigMul(unit, BigMul(t, t)))
             THEN RoundedRoot(lo, mid, lhs, unit)
             ELSE RoundedRoot(mid + 1, hi, lhs, unit)

\* |x - y|
BigDistance(x, y) == IF BigLess(x, y) THEN BigSub(y, x) ELSE BigSub(x, y)

\* The sum of (x - mean)^2 over the values, added to `start`.
RECURSIVE SumOfSquares(_, _, _)
SumOfSquares(values, mean, start) ==
    IF values = <<>> THEN start
    ELSE LET dev == BigDistance(Head(values), mean)
             partial == BigAdd(start, BigMul(dev, dev))
         IN  IF partial = <<>> THEN SumOfSquares(Tail(values), mean, <<>>)
             ELSE SumOfSquares(Tail(values), mean, partial)

\* _calculate_statistics over doubles: every figure rounded to 2 decimals,
\* in hundredths; {} when empty.  The mean is the floating-point sum divided
\* by n.  The deviations from it, their squares and the square root are
\* taken exactly: the floating-point operations of these steps err by less
\* than 2^-50 of the result, far below the hundredth it is rounded to.
_calculate_statistics(values) ==
    IF values = <<>> THEN None
    ELSE LET n == Len(values)
             mean == Float(FloatSum(values, <<>>), n)
             sorted_vals == SortedFloats(values)
             median == IF n % 2 = 1 THEN sorted_vals[n \div 2 + 1]
                       ELSE Float(BigAdd(sorted_vals[n \div 2],
                                         sorted_vals[n \div 2 + 1]), 2)
             squares == IF n > 1 THEN SumOfSquares(values, mean, <<>>) ELSE <<>>
             hundred == BigMulSmall(BigMulSmall(squares, 200), 200)
             span == Round2(sorted_vals[n]) - Round2(sorted_vals[1]) + 1
             mean_squared == BigMulSmall(BigMul(mean, mean), n)
             std_dev == IF hundred = <<>> THEN 0
                        ELSE RoundedRoot(0, span, hundred,
                                         ShiftLeft(BigOf(n), 2 * Scale))
             cv == IF mean # <<>> /\ hundred # <<>> /\ mean_squared # <<>>
                   THEN RoundedRoot(0, 10000 * n,
                                    BigMulSmall(BigMulSmall(hundred, 100), 100),
                                    mean_squared)
                   ELSE 0
         IN  [ count |-> n,
               mean |-> Round2(mean),
               median |-> Round2(median),
               min |-> Round2(sorted_vals[1]),
               max |-> Round2(sorted_vals[n]),
               std_dev |-> std_dev,
               coefficient_of_variation |-> cv ]

\* OUTLIER_IQR_FACTOR = 1.5, as a fraction.
OUTLIER_IQR_FACTOR == [num |-> 3, den |-> 2]

\* _detect_outliers(values, price_records) over doubles, the prices of the
\* entries in hundredths.  The lower fence may be negative; no price is
\* below a negative fence.
_detect_outliers(values, price_records) ==
    IF Len(values) < 4 THEN <<>>
    ELSE LET n == Len(values)
             sorted_vals == SortedFloats(values)
             q1 == sorted_vals[n \div 4 + 1]
             q3 == sorted_vals[(3 * n) \div 4 + 1]
             iqr == Float(BigSub(q3, q1), 1)
             margin == Float(BigMulSmall(iqr, OUTLIER_IQR_FACTOR.num),
                             OUTLIER_IQR_FACTOR.den)
             low(v) == ~BigLess(q1, margin) /\ BigLess(v, Float(BigSub(q1, margin), 1))
             upper_fence == Float(BigAdd(q3, margin), 1)
             high(v) == BigLess(upper_fence, v)
             flagged == SelectSeq([i \in 1..n |-> i],
                                  LAMBDA i : low(values[i]) \/ high(values[i]))
         IN  [k \in DOMAIN flagged |->
                LET i == flagged[k]
                IN  [ index |-> i,
                      price |-> Round2(values[i]),
                      type |-> IF low(values[i]) THEN "low" ELSE "high",
                      mandi_name |-> IF i <= Len(price_records)
                                     THEN price_records[i].mandi_name ELSE "",
                      state |-> IF i <= Len(price_records)
                                THEN price_records[i].state ELSE "" ]]

-----------------------------------------------------------------------------
(* Sell advisory *)

\* Rupees per quintal per month.
STORAGE_COST_PER_QUINTAL_PER_MONTH ==
    [default |-> 50, perishable |-> 150, semi_perishable |-> 80]

\* The entries of the table for the commodities of the model.
COMMODITY_STORAGE_CLASS ==
    [ Tomato |-> "perishable",
      Onion |-> "semi_perishable",
      Potato |-> "semi_perishable",
      Wheat |-> "default",
      Rice |-> "default",
      Paddy |-> "default",
      Maize |-> "default",
      Cotton |-> "default",
      Groundnut |-> "default",
      Soyabean |-> "default",
      Mustard |-> "default",
      Chana |-> "default",
      Garlic |-> "semi_perishable" ]

\* The whole table (Mustard and Garlic have no entry).
SEASONAL_PATTERNS ==
    [ Wheat |-> [peak_months |-> <<5, 6, 7, 8>>, low_months |-> <<3, 4>>,
                 expected_rise_pct |-> 15],
      Rice |-> [peak_months |-> <<7, 8, 9>>, low_months |-> <<11, 12, 1>>,
                expected_rise_pct |-> 12],
      Paddy |-> [peak_months |-> <<7, 8, 9>>, low_months |-> <<10, 11, 12>>,
                 expected_rise_pct |-> 12],
      Cotton |-> [peak_months |-> <<6, 7, 8, 9>>, low_months |-> <<11, 12, 1, 2>>,
                  expected_rise_pct |-> 20],
      Groundnut |-> [peak_months |-> <<6, 7, 8>>, low_months |-> <<10, 11, 12>>,
                     expected_rise_pct |-> 18],
      Onion |-> [peak_months |-> <<8, 9, 10>>, low_months |-> <<1, 2, 3, 4, 5>>,
                 expected_rise_pct |-> 40],
      Potato |-> [peak_months |-> <<8, 9, 10, 11>>, low_months |-> <<1, 2, 3>>,
                  expected_rise_pct |-> 30],
      Tomato |-> [peak_months |-> <<5, 6, 7>>, low_months |-> <<11, 12, 1, 2>>,
                  expected_rise_pct |-> 50],
      Soyabean |-> [peak_months |-> <<6, 7, 8>>, low_months |-> <<10, 11, 12>>,
                    expected_rise_pct |-> 15],
      Maize |-> [peak_months |-> <<4, 5, 6>>, low_months |-> <<9, 10, 11>>,
                 expected_rise_pct |-> 12],
      Chana |-> [peak_months |-> <<10, 11, 12>>, low_months |-> <<3, 4, 5>>,
                 expected_rise_pct |-> 18] ]

\* An absent current_price.
NoPrice == 0 - 1

\* datetime.now().month: day 0 of the clock is 1 January of a 365-day year.
MonthOf(ts) ==
    LET d == (ts \div TicksPerDay) % 365
        first == <<0, 31, 59, 90, 120, 151, 181, 212, 243, 273, 304, 334, 365>>
    IN  CHOOSE m \in 1..12 : first[m] <= d /\ d < first[m + 1]

\* COMMODITY_STORAGE_CLASS.get(commodity, "default"): the name as given is
\* the key.
StorageClass(commodity) ==
    IF commodity \in DOMAIN COMMODITY_STORAGE_CLASS
    THEN COMMODITY_STORAGE_CLASS[commodity]
    ELSE "default"

\* SEASONAL_PATTERNS.get(commodity, {}): the name as given is the key; None
\* stands for the empty dict.
Seasonal(commodity) ==
    IF commodity \in DOMAIN SEASONAL_PATTERNS
    THEN SEASONAL_PATTERNS[commodity]
    ELSE None

\* Each factor below is the list of factors it appends and what it adds to
\* sell_score.
NoFactor == [factors |-> <<>>, score |-> 0]

Factor(name, impact, score) ==
    [factors |-> <<[factor |-> name, impact |-> impact]>>, score |-> score]

\* Factor 1: current price against the historical average; the percentage
\* (current_price - historical_avg) / historical_avg * 100 is compared
\* unrounded.
PriceFactor(current_price, historical_avg) ==
    LET d == current_price - historical_avg
    IN  IF historical_avg <= 0 THEN NoFactor
        ELSE IF d * 100 > 15 * historical_avg
        THEN Factor("Price above average", "positive", 20)
        ELSE IF d * 100 > 5 * historical_avg
        THEN Factor("Price slightly above average", "neutral", 10)
        ELSE IF d * 100 < 0 - 15 * historical_avg
        THEN Factor("Price below average", "negative", 0 - 20)
        ELSE IF d * 100 < 0 - 5 * historical_avg
        THEN Factor("Price slightly below average", "neutral", 0 - 10)
        ELSE NoFactor

\* Factor 2: price trend.
TrendFactor(trend) ==
    IF trend = "up" THEN Factor("Rising price trend", "negative", 0 - 15)
    ELSE IF trend = "down" THEN Factor("Falling price trend", "positive", 15)
    ELSE NoFactor

\* Factor 3: perishability.
PerishabilityFactor(storage_class) ==
    IF storage_class = "perishable"
    THEN Factor("Highly perishable commodity", "positive", 25)
    ELSE IF storage_class = "semi_perishable"
    THEN Factor("Semi-perishable commodity", "neutral", 10)
    ELSE NoFactor

\* Factor 4: seasonal patterns.
SeasonFactor(seasonal, current_month) ==
    IF seasonal = None THEN NoFactor
    ELSE IF current_month \in Range(seasonal.peak_months)
    THEN Factor("Peak price season", "positive", 20)
    ELSE IF current_month \in Range(seasonal.low_months)
    THEN Factor("Low price season", "negative", 0 - 20)
    ELSE NoFactor

\* The search with the current month as its first candidate: offsets 0..5.
MonthsToPeakFromCurrent(seasonal, current_month) ==
    LET ahead == { m \in 1..6 :
                     ((current_month + m - 2) % 12) + 1 \in Range(seasonal.peak_months) }
    IN  IF seasonal = None \/ ahead = {} THEN 0 ELSE SetMin(ahead)

\* The first month offset 1..6 that falls in a peak month, 0 when there is
\* none.
MonthsToPeak(seasonal, current_month) ==
    LET ahead == { m \in 1..6 :
                     ((current_month + m - 1) % 12) + 1 \in Range(seasonal.peak_months) }
    IN  IF seasonal = None \/ ahead = {} THEN 0 ELSE SetMin(ahead)

\* Factor 5 with storage counted as paying off at a net gain of 0.
StorageFactorAtBreakEven(seasonal, storage_class, current_month, current_price) ==
    LET months_to_peak == MonthsToPeak(seasonal, current_month)
        storage_cost == STORAGE_COST_PER_QUINTAL_PER_MONTH[storage_class]
    IN  IF months_to_peak > 0 /\ storage_class # "perishable"
        THEN IF seasonal.expected_rise_pct * current_price
                  >= storage_cost * months_to_peak * 10000
             THEN Factor("Storage economics favorable", "negative", 0 - 15)
             ELSE Factor("Storage not economical", "positive", 10)
        ELSE NoFactor

\* Factor 5: storage cost.  net_gain > 0 with both sides in hundredths of a
\* rupee, multiplied by 100.
StorageFactor(seasonal, storage_class, current_month, current_price) ==
    LET months_to_peak == MonthsToPeak(seasonal, current_month)
        storage_cost == STORAGE_COST_PER_QUINTAL_PER_MONTH[storage_class]
    IN  IF months_to_peak > 0 /\ storage_class # "perishable"
        THEN IF seasonal.expected_rise_pct * current_price
                  > storage_cost * months_to_peak * 10000
             THEN Factor("Storage economics favorable", "negative", 0 - 15)
             ELSE Factor("Storage not economical", "positive", 10)
        ELSE NoFactor

Min(a, b) == IF a < b THEN a ELSE b

\* A mapping that tests the STORE and WAIT bands before the SELL bands and
\* with strict comparisons.
RecommendationStrict(sell_score) ==
    IF sell_score < 30
    THEN [action |-> "STORE", text |-> "Store for better prices",
          confidence |-> Min(90, 100 - sell_score)]
    ELSE IF sell_score < 45
    THEN [action |-> "WAIT", text |-> "Wait and monitor prices",
          confidence |-> Min(75, 100 - sell_score)]
    ELSE IF sell_score > 70
    THEN [action |-> "SELL_NOW", text |-> "Sell immediately",
          confidence |-> Min(95, sell_score)]
    ELSE IF sell_score > 55
    THEN [action |-> "SELL_SOON", text |-> "Sell within 1-2 weeks",
          confidence |-> Min(80, sell_score)]
    ELSE [action |-> "FLEXIBLE", text |-> "Sell partially or wait",
          confidence |-> 60]

\* The recommendation of a final score.
RecommendationOf(sell_score) ==
    IF sell_score >= 70
    THEN [action |-> "SELL_NOW", text |-> "Sell immediately",
          confidence |-> Min(95, sell_score)]
    ELSE IF sell_score >= 55
    THEN [action |-> "SELL_SOON", text |-> "Sell within 1-2 weeks",
          confidence |-> Min(80, sell_score)]
    ELSE IF sell_score <= 30
    THEN [action |-> "STORE", text |-> "Store for better prices",
          confidence |-> Min(90, 100 - sell_score)]
    ELSE IF sell_score <= 45
    THEN [action |-> "WAIT", text |-> "Wait and monitor prices",
          confidence |-> Min(75, 100 - sell_score)]
    ELSE [action |-> "FLEXIBLE", text |-> "Sell partially or wait",
          confidence |-> 60]

\* Whether the sequence of prices never falls / never rises.
NonDecreasing(p) == \A i \in 1..(Len(p) - 1) : p[i] <= p[i + 1]
NonIncreasing(p) == \A i \in 1..(Len(p) - 1) : p[i] >= p[i + 1]

\* The distance without the step across the end of the year.
MonthsToWaitNoWrap(peak_months, current_month) ==
    SetMin({ peak_months[k] - current_month : k \in DOMAIN peak_months })

\* The distance to the next peak month: for each peak month pm, pm -
\* current_month, 12 more when that is not positive; the smallest of these.
MonthsToWait(peak_months, current_month) ==
    LET diff(pm) == IF pm - current_month <= 0 THEN pm - current_month + 12
                    ELSE pm - current_month
    IN  SetMin({ diff(peak_months[k]) : k \in DOMAIN peak_months })

\* _calculate_best_selling_window.  Months are numbers 1..12 where the code
\* gives their names; the window of the peak season, whose text is the names
\* of start_month and end_month, is "Peak season".
_calculate_best_selling_window(commodity, current_month, seasonal, storage_class, price_history) ==
    LET peak_months == seasonal.peak_months
        months_to_wait == MonthsToWait(peak_months, current_month)
        n == Len(price_history)
        recent_prices == [k \in 1..5 |-> price_history[n - 5 + k].avg_price]
        flexible == [ window |-> "Flexible",
                      start_month |-> current_month,
                      end_month |-> ((current_month + 2) % 12) + 1,
                      months_to_wait |-> 0,
                      confidence |-> 50 ]
    IN  IF storage_class = "perishable"
        THEN [ window |-> "Immediate",
               start_month |-> current_month,
               end_month |-> current_month,
               months_to_wait |-> 0,
               confidence |-> 85 ]
        ELSE IF seasonal # None /\ current_month \in Range(peak_months)
        THEN [ window |-> "Now - Peak Season",
               start_month |-> current_month,
               end_month |-> peak_months[Len(peak_months)],
               months_to_wait |-> 0,
               confidence |-> 80 ]
        ELSE IF seasonal # None /\ peak_months # <<>>
        THEN IF storage_class = "semi_perishable" /\ months_to_wait > 3
             THEN [ window |-> "Within 1-2 months",
                    start_month |-> current_month,
                    end_month |-> ((current_month + 1) % 12) + 1,
                    months_to_wait |-> 0,
                    confidence |-> 70 ]
             ELSE [ window |-> "Peak season",
                    start_month |-> peak_months[1],
                    end_month |-> peak_months[Len(peak_months)],
                    months_to_wait |-> months_to_wait,
                    expected_price_rise_pct |-> seasonal.expected_rise_pct,
                    confidence |-> 75 ]
        ELSE IF n >= 5
        THEN IF NonDecreasing(recent_prices)
             THEN [ window |-> "Wait 2-4 weeks",
                    start_month |-> current_month,
                    end_month |-> (current_month % 12) + 1,
                    months_to_wait |-> 1,
                    confidence |-> 65 ]
             ELSE IF NonIncreasing(recent_prices)
             THEN [ window |-> "Immediate",
                    start_month |-> current_month,
                    end_month |-> current_month,
                    months_to_wait |-> 0,
                    confidence |-> 70 ]
             ELSE flexible
        ELSE flexible

\* get_sell_advisory.  The response carries no state filter and no score;
\* state_filter, data_points and sell_score are kept with it for the
\* properties.  A current_price that is absent or 0 is reported as NoPrice;
\* price_position_percentile is in tenths.
get_sell_advisory(commodity, current_price, state) ==
    LET trend_data == get_price_trends(commodity, state, 30)
        stats == trend_data.statistics
        trend == trend_data.trend
        price_history == trend_data.price_history
        price == IF current_price = NoPrice
                 THEN price_history[Len(price_history)].avg_price
                 ELSE current_price
        historical_avg == stats.mean
        historical_max == stats.max
        historical_min == stats.min
        storage_class == StorageClass(commodity)
        seasonal == Seasonal(commodity)
        current_month == MonthOf(now)
        price_range == historical_max - historical_min
        price_position == IF price_range > 0
                          THEN Round((price - historical_min) * 1000, price_range)
                          ELSE 500
        f1 == PriceFactor(price, historical_avg)
        f2 == TrendFactor(trend)
        f3 == PerishabilityFactor(storage_class)
        f4 == SeasonFactor(seasonal, current_month)
        f5 == StorageFactor(seasonal, storage_class, current_month, price)
        sell_score == 50 + f1.score + f2.score + f3.score + f4.score + f5.score
    IN  IF trend_data.data_points < 3
        THEN [ op |-> "advisory",
               commodity |-> commodity,
               state_filter |-> state,
               has_data |-> FALSE,
               message |-> "Insufficient price data to generate recommendation",
               recommendation |-> None,
               best_time_to_sell |-> None ]
        ELSE [ op |-> "advisory",
               commodity |-> commodity,
               state_filter |-> state,
               has_data |-> TRUE,
               data_points |-> trend_data.data_points,
               current_price |-> IF price = 0 THEN NoPrice ELSE price,
               historical_avg |-> historical_avg,
               historical_max |-> historical_max,
               historical_min |-> historical_min,
               price_position_percentile |-> price_position,
               trend |-> trend,
               trend_change_pct |-> trend_data.change_percent,
               storage_class |-> storage_class,
               storage_cost_per_month |-> STORAGE_COST_PER_QUINTAL_PER_MONTH[storage_class],
               sell_score |-> sell_score,
               recommendation |-> RecommendationOf(sell_score),
               factors |-> f1.factors \o f2.factors \o f3.factors \o f4.factors
                           \o f5.factors,
               best_time_to_sell |-> _calculate_best_selling_window(
                   commodity, current_month, seasonal, storage_class, price_history) ]

-----------------------------------------------------------------------------
(* Feed cache *)

\* settings.APMC_CACHE_HOURS = 24 hours, in ticks.
CacheTtl == TicksPerDay

\* f"datagov:{commodity or 'all'}:{state or 'all'}" for the refresh requests
\* of the model.
CacheKeys == {"datagov:Wheat:all", "datagov:all:all"}

\* _ApiCache.__init__: no key has an entry.
EmptyCache == [k \in CacheKeys |-> None]

\* The coroutines that run refresh_prices_from_api on the event loop.
Callers == {1, 2}

IdleCall == [pc |-> "idle", commodity |-> "", state |-> "", response |-> None]

\* The threads that call the cache.
Threads == {1, 2}

IdleThread ==
    [pc |-> "idle", op |-> "", key |-> "", data |-> <<>>, cached_at |-> 0,
     entry |-> None, checked_at |-> 0, ret |-> None]

\* The feed cache at start-up, with nobody calling it.
FeedIdle ==
    /\ cache = EmptyCache
    /\ lock = 0
    /\ calls = [p \in Callers |-> IdleCall]
    /\ threads = [t \in Threads |-> IdleThread]
    /\ last_put = EmptyCache

\* Whether the entry is older than the TTL at time t.
Expired(entry, t) == t - entry.cached_at > CacheTtl

\* What _ApiCache.get returns: None, or the data it found.
Miss == [found |-> FALSE, data |-> <<>>]
Found(data) == [found |-> TRUE, data |-> data]

\* _ApiCache.get under the lock: what it returns at time t ...
CacheGet(c, key, t) ==
    IF c[key] = None \/ Expired(c[key], t) THEN Miss ELSE Found(c[key].data)

\* ... and what it leaves in the cache: the entry it finds expired is deleted.
CacheEvict(c, key, t) ==
    IF c[key] # None /\ Expired(c[key], t) THEN [c EXCEPT ![key] = None] ELSE c

\* _ApiCache.put under the lock at time t.
CachePut(c, key, data, t) ==
    [c EXCEPT ![key] = [cached_at |-> t, data |-> data]]

\* The cache key of a refresh request.
CacheKey(commodity, state) ==
    CASE commodity = "Wheat" /\ state = "" -> "datagov:Wheat:all"
      [] commodity = "" /\ state = "" -> "datagov:all:all"

-----------------------------------------------------------------------------
(* Feed refresh *)

\* An arrival_date of the feed that no format parses.
NoDate == 0 - 1

\* _parse_data_gov_record of a record whose prices are numbers: the date is
\* parsed as midnight UTC of its day, or is now when it does not parse; a record without a market name goes to
\* "Unknown Market"; the price is the modal price, or the max price when the
\* modal price is not positive.
_parse_data_gov_record(record) ==
    [ commodity |-> Strip(record.commodity),
      mandi_name |-> IF Strip(record.market) = "" THEN "Unknown Market"
                     ELSE Strip(record.market),
      state |-> Strip(record.state),
      price_per_quintal |-> IF record.modal_price > 0 THEN record.modal_price
                            ELSE record.max_price,
      arrival_date |-> IF record.arrival_date = NoDate THEN now
                       ELSE record.arrival_date * TicksPerDay ]

\* Records of the feed: two varieties of wheat at Karnal on one day, wheat at
\* Azadpur, and a record without market and modal price whose max price is
\* negative.
KarnalWheat ==
    [commodity |-> "Wheat", market |-> "Karnal Mandi", state |-> "Haryana",
     arrival_date |-> Now0 - 1, modal_price |-> 220000, max_price |-> 225000]
KarnalWheatSharbati ==
    [commodity |-> "Wheat", market |-> "Karnal Mandi", state |-> "Haryana",
     arrival_date |-> Now0 - 1, modal_price |-> 235000, max_price |-> 240000]
AzadpurWheat ==
    [commodity |-> "Wheat", market |-> "Azadpur Mandi", state |-> "Delhi",
     arrival_date |-> Now0 - 1, modal_price |-> 225000, max_price |-> 230000]
NegativePrice ==
    [commodity |-> "Wheat", market |-> "", state |-> "Delhi",
     arrival_date |-> Now0 - 1, modal_price |-> 0, max_price |-> 0 - 100]

\* What the HTTP request ends with: a failure (a timeout, an error status, a
\* body that is not a JSON object: whatever raises inside the try block) or
\* the raw records of the response, none when the object has no "records".
Failure == [ok |-> FALSE, records |-> <<>>]
Records(raw_records) == [ok |-> TRUE, records |-> raw_records]
Responses ==
    { Failure,
      Records(<<>>),
      Records(<<KarnalWheat, KarnalWheatSharbati>>),
      Records(<<NegativePrice, AzadpurWheat>>),
      Records(<<KarnalWheat, AzadpurWheat>>) }

\* The requests of the model: refresh(commodity, state).
RefreshRequests == { <<"Wheat", "">>, <<"", "">> }

\* The parsed records of a response.
Parsed(response) ==
    [k \in DOMAIN response.records |-> _parse_data_gov_record(response.records[k])]

\* fetch_from_data_gov up to the HTTP request: the cached records, a miss
\* when the request has to be made.
FetchCached(key) == CacheGet(cache, key, now)

\* A fetch that caches an empty list when the request fails.
FetchPutEvenOnFailure(key, response) ==
    CachePut(cache, key, Parsed(response), now)

\* fetch_from_data_gov after the HTTP request: the cache it leaves.  Only a
\* response that parsed is put.
FetchPut(key, response) ==
    IF response.ok THEN CachePut(cache, key, Parsed(response), now) ELSE cache

\* db.query(MandiPrice).filter(commodity ==, mandi_name ==, arrival_date ==)
\* .first(): the session does not autoflush, so only committed rows are seen.
Existing(record) ==
    \E i \in DOMAIN store :
        /\ store[i].commodity = record.commodity
        /\ store[i].mandi_name = record.mandi_name
        /\ store[i].arrival_date = record.arrival_date

\* The rows the loop adds to the session.
Pending(api_records) == SelectSeq(api_records, LAMBDA r : ~Existing(r))

\* The CHECK constraint of mandi_prices on the columns of the model.
CheckOk(row) == row.price_per_quintal >= 0

\* db.commit(): the flush inserts every pending row, and fails as a whole
\* when a row breaks a constraint.
CommitOk(pending) == \A k \in DOMAIN pending : CheckOk(pending[k])

LocalResult ==
    [op |-> "refresh", source |-> "local", refreshed |-> 0,
     message |-> "API not available; using local data"]

\* refresh_prices_from_api from the records on: the response it returns
\* (api_records is kept with it for the properties) ...
RefreshResult(api_records) ==
    LET pending == Pending(api_records)
    IN  IF pending # <<>> /\ ~CommitOk(pending)
        THEN [op |-> "refresh", source |-> "data.gov.in", refreshed |-> 0,
              message |-> "Commit failed", api_records |-> api_records]
        ELSE [op |-> "refresh", source |-> "data.gov.in",
              refreshed |-> Len(pending),
              skipped |-> Len(api_records) - Len(pending),
              message |-> "Inserted new records, skipped duplicates",
              api_records |-> api_records]

\* ... and the table it leaves.
RefreshStore(api_records) ==
    LET pending == Pending(api_records)
    IN  IF CommitOk(pending) THEN store \o pending ELSE store

-----------------------------------------------------------------------------
(* State machine *)

NoResult == [op |-> "none"]

\* No prices handed to the analytics helpers.
NoSample == <<>>

\* The client addresses the rate limiter sees.
Clients == {"10.0.0.1", "10.0.0.2"}

\* The analytics helpers not called and the rate limiter just constructed:
\* self._requests = defaultdict(list).
RestIdle ==
    /\ sample = NoSample
    /\ requests = [ip \in Clients |-> <<>>]
    /\ admitted = [ip \in Clients |-> <<>>]
    /\ clock = 0

Init ==
    /\ store = <<>>
    /\ now = StartTick
    /\ tiebreak \in {"asc", "desc"}
    /\ result = NoResult
    /\ api_key = FALSE
    /\ FeedIdle
    /\ RestIdle

\* db.add(MandiPrice(...)); db.commit(): a row is appended to the table.
Insert ==
    /\ result = NoResult
    /\ Len(store) < MaxStore
    /\ \E o \in Observations : store' = Append(store, o)
    /\ UNCHANGED <<now, tiebreak, result>>
    /\ UNCHANGED feedVars
    /\ UNCHANGED restVars

\* The clock advances.
Tick ==
    /\ result = NoResult
    /\ now < StartTick + MaxTicks
    /\ now' = now + 1
    /\ UNCHANGED <<store, tiebreak, result>>
    /\ UNCHANGED feedVars
    /\ UNCHANGED restVars

\* GET /compare
Compare ==
    /\ result = NoResult
    /\ \E c \in QueryCommodities, names \in QueryMandiNames, s \in QueryStates :
          result' = compare_prices(c, names, s)
    /\ UNCHANGED <<store, now, tiebreak>>
    /\ UNCHANGED feedVars
    /\ UNCHANGED restVars

\* GET /best.  user_lat and user_lon are both given or both absent here;
\* max_distance_km is read only when they are given (its default is 100).
FindBest ==
    /\ result = NoResult
    /\ \E c \in QueryCommodities, s \in QueryStates :
          \/ result' = find_best_apmc(c, NoLocation, 100, s)
          \/ \E loc \in UserLocations, d \in QueryMaxDistanceKm :
                result' = find_best_apmc(c, loc, d, s)
    /\ UNCHANGED <<store, now, tiebreak>>
    /\ UNCHANGED feedVars
    /\ UNCHANGED restVars

\* GET /trends
Trends ==
    /\ result = NoResult
    /\ \E c \in QueryCommodities, s \in QueryStates, days \in QueryDays :
          result' = get_price_trends(c, s, days)
    /\ UNCHANGED <<store, now, tiebreak>>
    /\ UNCHANGED feedVars
    /\ UNCHANGED restVars

\* The handler returns; the response leaves the service.
Respond ==
    /\ result # NoResult
    /\ result' = NoResult
    /\ UNCHANGED <<store, now, tiebreak>>
    /\ UNCHANGED feedVars
    /\ UNCHANGED restVars

Next == Insert \/ Tick \/ Compare \/ FindBest \/ Trends \/ Respond

Spec == Init /\ [][Next]_vars

-----------------------------------------------------------------------------
(* Sell advisory through the year *)

\* Dates on which the service runs: 21 January, 11 April, 16 June,
\* 16 September and 16 December.
AdvisoryClock == { 20 * TicksPerDay, 100 * TicksPerDay, 166 * TicksPerDay,
                   258 * TicksPerDay, 349 * TicksPerDay }

\* Rows that seeding or a feed refresh stores on the day t, dated relative to
\* it; the last is dated two days ahead.
DatedObservations(t) ==
    { [commodity |-> "Tomato", mandi_name |-> "Azadpur Mandi", state |-> "Delhi",
       price_per_quintal |-> 80000, arrival_date |-> t - 40 * TicksPerDay],
      [commodity |-> "Tomato", mandi_name |-> "Azadpur Mandi", state |-> "Delhi",
       price_per_quintal |-> 100000, arrival_date |-> t - 20 * TicksPerDay],
      [commodity |-> "Tomato", mandi_name |-> "Azadpur Mandi", state |-> "Delhi",
       price_per_quintal |-> 120000, arrival_date |-> t - TicksPerDay],
      [commodity |-> "Tomato", mandi_name |-> "Azadpur Mandi", state |-> "Delhi",
       price_per_quintal |-> 90000, arrival_date |-> t],
      [commodity |-> "Onion", mandi_name |-> "Azadpur Mandi", state |-> "Delhi",
       price_per_quintal |-> 150000, arrival_date |-> t - TicksPerDay],
      [commodity |-> "Mustard", mandi_name |-> "Karnal Mandi", state |-> "Haryana",
       price_per_quintal |-> 500000, arrival_date |-> t - TicksPerDay],
      [commodity |-> "Wheat", mandi_name |-> "Karnal Mandi", state |-> "Haryana",
       price_per_quintal |-> 200000, arrival_date |-> t - 20 * TicksPerDay],
      [commodity |-> "Wheat", mandi_name |-> "Karnal Mandi", state |-> "Haryana",
       price_per_quintal |-> 220000, arrival_date |-> t - TicksPerDay],
      [commodity |-> "Wheat", mandi_name |-> "Karnal Mandi", state |-> "Haryana",
       price_per_quintal |-> 210000, arrival_date |-> t + 2 * TicksPerDay] }

AdvisoryCommodities == {"Tomato", "tomato", "Wheat", "Onion", "Mustard"}
\* none, Rs 800.00 and Rs 1300.00
AdvisoryPrices == {NoPrice, 80000, 130000}

InitAdvisory ==
    /\ store = <<>>
    /\ now \in AdvisoryClock
    /\ tiebreak \in {"asc", "desc"}
    /\ result = NoResult
    /\ api_key = FALSE
    /\ FeedIdle
    /\ RestIdle

\* db.add(MandiPrice(...)); db.commit() with a date relative to today.
Seed ==
    /\ result = NoResult
    /\ Len(store) < MaxStore
    /\ \E o \in DatedObservations(now) : store' = Append(store, o)
    /\ UNCHANGED <<now, tiebreak, result>>
    /\ UNCHANGED feedVars
    /\ UNCHANGED restVars

\* GET /sell-advisory
Advisory ==
    /\ result = NoResult
    /\ \E c \in AdvisoryCommodities, price \in AdvisoryPrices :
          result' = get_sell_advisory(c, price, "")
    /\ UNCHANGED <<store, now, tiebreak>>
    /\ UNCHANGED feedVars
    /\ UNCHANGED restVars

NextAdvisory == Seed \/ Advisory \/ Respond

SpecAdvisory == InitAdvisory /\ [][NextAdvisory]_vars

-----------------------------------------------------------------------------
(* Refresh from the feed.  refresh_prices_from_api is a coroutine: it runs
   without interruption except at the await of the HTTP request, where other
   coroutines of the event loop run. *)

InitRefresh ==
    /\ store = <<>>
    /\ now = StartTick
    /\ tiebreak \in {"asc", "desc"}
    /\ result = NoResult
    /\ api_key \in BOOLEAN
    /\ FeedIdle
    /\ RestIdle

\* GET /prices?refresh=true: refresh_prices_from_api up to the await of the
\* HTTP request, or to its end when there is no API key or the cache holds
\* the records.
RefreshCall ==
    /\ result = NoResult
    /\ \E p \in Callers, req \in RefreshRequests :
          LET key == CacheKey(req[1], req[2])
              cached == FetchCached(key)
          IN  /\ calls[p].pc = "idle"
              /\ IF ~api_key
                 THEN /\ result' = LocalResult
                      /\ UNCHANGED <<store, cache, calls>>
                 ELSE /\ cache' = CacheEvict(cache, key, now)
                      /\ IF cached.found
                         THEN /\ Len(RefreshStore(cached.data)) <= MaxStore
                              /\ store' = RefreshStore(cached.data)
                              /\ result' = RefreshResult(cached.data)
                              /\ UNCHANGED calls
                         ELSE /\ calls' = [calls EXCEPT ![p] =
                                    [pc |-> "awaiting", commodity |-> req[1],
                                     state |-> req[2], response |-> None]]
                              /\ UNCHANGED <<store, result>>
    /\ UNCHANGED <<now, tiebreak, api_key, lock, threads, last_put>>
    /\ UNCHANGED restVars

\* The HTTP request of a waiting coroutine ends.
HttpResponse ==
    /\ \E p \in Callers, response \in Responses :
          /\ calls[p].pc = "awaiting"
          /\ calls' = [calls EXCEPT ![p].pc = "responded", ![p].response = response]
    /\ UNCHANGED <<store, now, tiebreak, result, api_key, cache, lock, threads, last_put>>
    /\ UNCHANGED restVars

\* The event loop resumes the coroutine: fetch_from_data_gov parses and
\* caches the records, and refresh_prices_from_api stores the new ones,
\* commits and returns.
RefreshResume ==
    /\ result = NoResult
    /\ \E p \in Callers :
          LET response == calls[p].response
              key == CacheKey(calls[p].commodity, calls[p].state)
          IN  /\ calls[p].pc = "responded"
              /\ cache' = FetchPut(key, response)
              /\ last_put' = IF response.ok
                             THEN CachePut(last_put, key, Parsed(response), now)
                             ELSE last_put
              /\ IF response.ok
                 THEN /\ Len(RefreshStore(Parsed(response))) <= MaxStore
                      /\ store' = RefreshStore(Parsed(response))
                      /\ result' = RefreshResult(Parsed(response))
                 ELSE /\ store' = store
                      /\ result' = LocalResult
              /\ calls' = [calls EXCEPT ![p] = IdleCall]
    /\ UNCHANGED <<now, tiebreak, api_key, lock, threads>>
    /\ UNCHANGED restVars

\* The clock advances while the cache is in use.
Elapse ==
    /\ result = NoResult
    /\ now < StartTick + MaxFeedTicks
    /\ now' = now + 1
    /\ UNCHANGED <<store, tiebreak, result>>
    /\ UNCHANGED feedVars
    /\ UNCHANGED restVars

NextRefresh == RefreshCall \/ HttpResponse \/ RefreshResume \/ Elapse \/ Respond

SpecRefresh == InitRefresh /\ [][NextRefresh]_vars

-----------------------------------------------------------------------------
(* The feed cache called from several threads.  Every method of _ApiCache
   runs its body under self._lock; a step below is one statement of a
   body, and the threads interleave between steps. *)

\* The lists of parsed records that fetch_from_data_gov puts in the cache.
CacheData == {Parsed(response) : response \in {r \in Responses : r.ok}}

\* The methods of _ApiCache.
CacheOps == {"get", "put", "clear"}

InitCache ==
    /\ store = <<>>
    /\ now = StartTick
    /\ tiebreak = "asc"
    /\ result = NoResult
    /\ api_key = TRUE
    /\ FeedIdle
    /\ RestIdle

\* `with self._lock` lets a thread in when no thread holds the lock.
LockIgnored == TRUE
LockFree == lock = 0

\* A thread calls get(key), put(key, data) or clear().
CacheCall ==
    /\ \E t \in Threads, op \in CacheOps, key \in CacheKeys, data \in CacheData :
          /\ threads[t].pc = "idle"
          /\ op = "clear" => key = CacheKey("", "")
          /\ op # "put" => data = <<>>
          /\ threads' = [threads EXCEPT ![t] =
                [IdleThread EXCEPT !.pc = "acquire", !.op = op, !.key = key,
                                   !.data = data]]
    /\ UNCHANGED <<store, now, tiebreak, result, api_key, cache, lock, calls, last_put>>
    /\ UNCHANGED restVars

\* with self._lock: the thread takes the lock.
Acquire ==
    /\ \E t \in Threads :
          /\ threads[t].pc = "acquire"
          /\ LockFree
          /\ lock' = t
          /\ threads' = [threads EXCEPT ![t].pc = threads[t].op]
    /\ UNCHANGED <<store, now, tiebreak, result, api_key, cache, calls, last_put>>
    /\ UNCHANGED restVars

\* get: entry = self._store.get(key); return None when there is none.
GetRead ==
    /\ \E t \in Threads :
          LET entry == cache[threads[t].key]
          IN  /\ threads[t].pc = "get"
              /\ threads' = [threads EXCEPT
                    ![t].entry = entry,
                    ![t].ret = IF entry = None THEN Miss ELSE None,
                    ![t].pc = IF entry = None THEN "release" ELSE "check"]
    /\ UNCHANGED <<store, now, tiebreak, result, api_key, cache, lock, calls, last_put>>
    /\ UNCHANGED restVars

\* get: the entry is compared with the clock; an expired entry is deleted
\* and None returned, otherwise the data of the entry is returned.
GetCheck ==
    /\ \E t \in Threads :
          LET entry == threads[t].entry
              key == threads[t].key
          IN  /\ threads[t].pc = "check"
              /\ IF Expired(entry, now)
                 THEN /\ cache' = [cache EXCEPT ![key] = None]
                      /\ threads' = [threads EXCEPT ![t].checked_at = now,
                                        ![t].ret = Miss, ![t].pc = "release"]
                 ELSE /\ cache' = cache
                      /\ threads' = [threads EXCEPT ![t].checked_at = now,
                                        ![t].ret = Found(entry.data),
                                        ![t].pc = "release"]
    /\ UNCHANGED <<store, now, tiebreak, result, api_key, lock, calls, last_put>>
    /\ UNCHANGED restVars

\* put: datetime.now(timezone.utc) is read for the new entry.
PutStamp ==
    /\ \E t \in Threads :
          /\ threads[t].pc = "put"
          /\ threads' = [threads EXCEPT ![t].cached_at = now, ![t].pc = "store"]
    /\ UNCHANGED <<store, now, tiebreak, result, api_key, cache, lock, calls, last_put>>
    /\ UNCHANGED restVars

\* put: self._store[key] = (cached_at, data), one assignment of the whole
\* entry.
PutStore ==
    /\ \E t \in Threads :
          /\ threads[t].pc = "store"
          /\ cache' = CachePut(cache, threads[t].key, threads[t].data,
                               threads[t].cached_at)
          /\ last_put' = CachePut(last_put, threads[t].key, threads[t].data,
                                  threads[t].cached_at)
          /\ threads' = [threads EXCEPT ![t].pc = "release"]
    /\ UNCHANGED <<store, now, tiebreak, result, api_key, lock, calls>>
    /\ UNCHANGED restVars

\* clear: self._store.clear().
ClearAll ==
    /\ \E t \in Threads :
          /\ threads[t].pc = "clear"
          /\ cache' = EmptyCache
          /\ last_put' = EmptyCache
          /\ threads' = [threads EXCEPT ![t].pc = "release"]
    /\ UNCHANGED <<store, now, tiebreak, result, api_key, lock, calls>>
    /\ UNCHANGED restVars

\* The end of the with block: the lock is released and the method returns.
Release ==
    /\ \E t \in Threads :
          /\ threads[t].pc = "release"
          /\ lock' = 0
          /\ threads' = [threads EXCEPT ![t] = IdleThread]
    /\ UNCHANGED <<store, now, tiebreak, result, api_key, cache, calls, last_put>>
    /\ UNCHANGED restVars

NextCache ==
    \/ CacheCall \/ Acquire \/ GetRead \/ GetCheck \/ PutStamp \/ PutStore
    \/ ClearAll \/ Release \/ Elapse

SpecCache == InitCache /\ [][NextCache]_vars

-----------------------------------------------------------------------------
(* The analytics helpers on samples of prices.  A price is written with
   three decimals and given in thousandths of a rupee. *)

MaxSample == 6      \* prices in a sample

\* The prices that occur together in a sample.
SamplePriceLists ==
    { {10000, 100000},
      {2100000, 2100060, 2100150},
      {2000065, 2000070} }

\* The observations a sample is drawn from.
SampleRows ==
    { [mandi_name |-> "Karnal Mandi", state |-> "Haryana", price |-> 10000],
      [mandi_name |-> "Azadpur Mandi", state |-> "Delhi", price |-> 100000],
      [mandi_name |-> "Karnal Mandi", state |-> "Haryana", price |-> 2100000],
      [mandi_name |-> "Azadpur Mandi", state |-> "Delhi", price |-> 2100060],
      [mandi_name |-> "Vashi Mandi", state |-> "Maharashtra", price |-> 2100150],
      [mandi_name |-> "Karnal Mandi", state |-> "Haryana", price |-> 2000065],
      [mandi_name |-> "Azadpur Mandi", state |-> "Delhi", price |-> 2000070] }

\* all_prices = [p.price_per_quintal for p in prices]
AllPrices(rows) == [k \in DOMAIN rows |-> FloatOfThousandths(rows[k].price)]

\* One entry of price_history: the average, minimum and maximum of the
\* prices of one date, each rounded to two decimals and given in hundredths.
HistoryEntry(day_prices) ==
    LET total == FloatSum(day_prices, <<>>)
        sorted_vals == SortedFloats(day_prices)
    IN  [ avg_price |-> IF total = <<>> THEN 0
                        ELSE Round2(Float(total, Len(day_prices))),
          min_price |-> Round2(sorted_vals[1]),
          max_price |-> Round2(sorted_vals[Len(sorted_vals)]),
          records |-> Len(day_prices) ]

InitAnalytics ==
    /\ store = <<>>
    /\ now = StartTick
    /\ tiebreak = "asc"
    /\ result = NoResult
    /\ api_key = FALSE
    /\ FeedIdle
    /\ RestIdle

\* One more observation joins the sample.
Observe ==
    /\ result = NoResult
    /\ Len(sample) < MaxSample
    /\ \E row \in SampleRows :
          /\ \E list \in SamplePriceLists :
                { sample[k].price : k \in DOMAIN sample } \cup {row.price} \subseteq list
          /\ sample' = Append(sample, row)
    /\ UNCHANGED <<store, now, tiebreak, result, requests, admitted, clock>>
    /\ UNCHANGED feedVars

\* stats = _calculate_statistics(all_prices)
Statistics ==
    /\ result = NoResult
    /\ result' = [ op |-> "statistics",
                   statistics |-> _calculate_statistics(AllPrices(sample)) ]
    /\ UNCHANGED <<store, now, tiebreak>>
    /\ UNCHANGED feedVars
    /\ UNCHANGED restVars

\* outliers = _detect_outliers(all_prices, prices)
Outliers ==
    /\ result = NoResult
    /\ result' = [ op |-> "outliers",
                   outliers |-> _detect_outliers(AllPrices(sample), sample) ]
    /\ UNCHANGED <<store, now, tiebreak>>
    /\ UNCHANGED feedVars
    /\ UNCHANGED restVars

\* The price_history entry of a date whose observations are the sample.
History ==
    /\ result = NoResult
    /\ sample # <<>>
    /\ result' = [ op |-> "history", entry |-> HistoryEntry(AllPrices(sample)) ]
    /\ UNCHANGED <<store, now, tiebreak>>
    /\ UNCHANGED feedVars
    /\ UNCHANGED restVars

NextAnalytics == Observe \/ Statistics \/ Outliers \/ History \/ Respond

SpecAnalytics == InitAnalytics /\ [][NextAnalytics]_vars

-----------------------------------------------------------------------------
(* The best-selling window through the twelve months.  The history of daily
   averages is `sample`, the oldest first. *)

MaxHistory == 6     \* daily averages in a price history

\* The 15th of each month.
WindowClock ==
    { d * TicksPerDay :
        d \in {14, 45, 73, 104, 134, 165, 195, 226, 257, 287, 318, 348} }

\* Rs 1000.00 and Rs 1100.00
DayAverages == {100000, 110000}

WindowCommodities == DOMAIN COMMODITY_STORAGE_CLASS

InitWindow ==
    /\ store = <<>>
    /\ now \in WindowClock
    /\ tiebreak = "asc"
    /\ result = NoResult
    /\ api_key = FALSE
    /\ FeedIdle
    /\ RestIdle

\* One more day joins the price history.
DayAverage ==
    /\ result = NoResult
    /\ Len(sample) < MaxHistory
    /\ \E p \in DayAverages : sample' = Append(sample, [avg_price |-> p])
    /\ UNCHANGED <<store, now, tiebreak, result, requests, admitted, clock>>
    /\ UNCHANGED feedVars

\* The part of get_sell_advisory from the table lookups to the window: the
\* search of factor 5 for the next peak month, and the call of
\* _calculate_best_selling_window.
Window ==
    /\ result = NoResult
    /\ \E commodity \in WindowCommodities :
          LET storage_class == StorageClass(commodity)
              seasonal == Seasonal(commodity)
              current_month == MonthOf(now)
          IN  result' = [ op |-> "window",
                          commodity |-> commodity,
                          storage_class |-> storage_class,
                          current_month |-> current_month,
                          months_to_peak |-> MonthsToPeak(seasonal, current_month),
                          best_time_to_sell |-> _calculate_best_selling_window(
                              commodity, current_month, seasonal, storage_class,
                              sample) ]
    /\ UNCHANGED <<store, now, tiebreak>>
    /\ UNCHANGED feedVars
    /\ UNCHANGED restVars

NextWindow == DayAverage \/ Window \/ Respond

SpecWindow == InitWindow /\ [][NextWindow]_vars

-----------------------------------------------------------------------------
(* Rate limiter.  dispatch runs on the event loop; from reading the clock to
   appending the timestamp it has no await, so each request is decided in
   one step.  time.time() is taken as a clock that never goes back, read in
   ticks; `admitted` keeps, for each client, the timestamps of the requests
   to limited paths that were passed on to call_next. *)

max_requests == 2       \* requests allowed per window
window_seconds == 2     \* length of the window
TicksPerSecond == 2     \* clock resolution of the limiter
MaxClock == 6           \* how far the limiter's clock advances, in ticks

WindowTicks == window_seconds * TicksPerSecond

\* exclude_paths, and the paths of the requests; a path is the sequence of
\* its characters.
exclude_paths ==
    { <<"/", "d", "o", "c", "s">>,
      <<"/", "r", "e", "d", "o", "c">>,
      <<"/", "o", "p", "e", "n", "a", "p", "i", ".", "j", "s", "o", "n">>,
      <<"/", "h", "e", "a", "l", "t", "h">> }

Paths ==
    { <<"/", "h", "e", "a", "l", "t", "h">>,
      <<"/", "h", "e", "a", "l", "t", "h", "/", "d", "b">>,
      <<"/", "d", "o", "c">>,
      <<"/", "a", "p", "i">> }

\* path.startswith(prefix)
startswith(path, prefix) ==
    /\ Len(prefix) <= Len(path)
    /\ SubSeq(path, 1, Len(prefix)) = prefix

Excluded(path) == \E prefix \in exclude_paths : startswith(path, prefix)

\* _cleanup: the timestamps after the cutoff.
_cleanup(timestamps, t) ==
    LET cutoff == t - WindowTicks
    IN  SelectSeq(timestamps, LAMBDA ts : ts > cutoff)

\* A limit that lets one request more through.
OverLimitByOne(current_count) == current_count > max_requests

\* current_count >= self.max_requests
OverLimit(current_count) == current_count >= max_requests

InitLimiter ==
    /\ store = <<>>
    /\ now = StartTick
    /\ tiebreak = "asc"
    /\ result = NoResult
    /\ api_key = FALSE
    /\ FeedIdle
    /\ RestIdle

\* Time passes.
ClockAdvance ==
    /\ result = NoResult
    /\ clock < MaxClock
    /\ clock' = clock + 1
    /\ UNCHANGED <<store, now, tiebreak, result, sample, requests, admitted>>
    /\ UNCHANGED feedVars

\* dispatch.  Times in the response are in seconds: retry_after is
\* int(window_seconds - (now - earliest)) + 1.
Dispatch ==
    /\ result = NoResult
    /\ \E client_ip \in Clients, path \in Paths :
          LET cleaned == _cleanup(requests[client_ip], clock)
              current_count == Len(cleaned)
              remaining == IF max_requests - current_count > 0
                           THEN max_requests - current_count ELSE 0
              earliest == IF cleaned # <<>> THEN cleaned[1] ELSE clock
          IN  IF Excluded(path)
              THEN /\ result' = [ op |-> "dispatch", client |-> client_ip,
                                  path |-> path, status |-> 200 ]
                   /\ UNCHANGED <<requests, admitted>>
              ELSE IF OverLimit(current_count)
              THEN /\ requests' = [requests EXCEPT ![client_ip] = cleaned]
                   /\ result' = [ op |-> "dispatch", client |-> client_ip,
                                  path |-> path, status |-> 429,
                                  retry_after |->
                                      ((WindowTicks - (clock - earliest))
                                          \div TicksPerSecond) + 1,
                                  remaining |-> 0 ]
                   /\ UNCHANGED admitted
              ELSE /\ requests' = [requests EXCEPT
                                      ![client_ip] = Append(cleaned, clock)]
                   /\ admitted' = [admitted EXCEPT
                                      ![client_ip] = Append(@, clock)]
                   /\ result' = [ op |-> "dispatch", client |-> client_ip,
                                  path |-> path, status |-> 200,
                                  remaining |-> IF remaining > 0
                                                THEN remaining - 1 ELSE 0 ]
    /\ UNCHANGED <<store, now, tiebreak, sample, clock>>
    /\ UNCHANGED feedVars

NextLimiter == ClockAdvance \/ Dispatch \/ Respond

SpecLimiter == InitLimiter /\ [][NextLimiter]_vars

-----------------------------------------------------------------------------
(* Properties *)

IsCompare == result.op = "compare"
IsBest == result.op = "best"
WithLocation == result.op = "best" /\ result.user_location # NoLocation

\* The rows of the store that match a commodity, whatever their state.
CommodityRows(commodity) ==
    { i \in DOMAIN store : Lower(store[i].commodity) = Lower(commodity) }

\* The rows that match the commodity, state and market-name filters of the
\* compare() call whose response is `result`.
ComparedRows ==
    { i \in CommodityRows(result.commodity) :
        /\ result.state_filter # "" =>
              Lower(store[i].state) = Lower(result.state_filter)
        /\ result.mandi_names # <<>> =>
              \E k \in DOMAIN result.mandi_names :
                  Lower(store[i].mandi_name) = Strip(Lower(result.mandi_names[k])) }

\* The rows that match the commodity and state filter of the find_best()
\* call whose response is `result`.
RankedRows ==
    { i \in CommodityRows(result.commodity) :
        result.state_filter # "" =>
            Lower(store[i].state) = Lower(result.state_filter) }

\* C1: compare() returns exactly one entry per distinct market name that has
\* a matching observation of the commodity, and the entry's latest_price and
\* arrival_date are those of an observation of that market and commodity
\* with the highest arrival_date: no market appears twice and no older
\* observation of a market is reported.
C1_CompareLatestPerMarket ==
    IsCompare =>
        LET names == { store[i].mandi_name : i \in ComparedRows }
            apmcs == result.apmcs
        IN  /\ Len(apmcs) = Cardinality(names)
            /\ { apmcs[k].mandi_name : k \in DOMAIN apmcs } = names
            /\ \A k \in DOMAIN apmcs :
                 LET rows == { i \in CommodityRows(result.commodity) :
                                 store[i].mandi_name = apmcs[k].mandi_name }
                 IN  /\ \A i \in rows : store[i].arrival_date <= apmcs[k].arrival_date
                     /\ \E i \in rows :
                          /\ store[i].arrival_date = apmcs[k].arrival_date
                          /\ store[i].price_per_quintal = apmcs[k].latest_price

\* C1 witness: a comparison of two markets, one of which also has an older
\* observation at another price.
C1_Witness ==
    /\ IsCompare
    /\ Len(result.apmcs) >= 2
    /\ \E k \in DOMAIN result.apmcs : \E i \in CommodityRows(result.commodity) :
         /\ store[i].mandi_name = result.apmcs[k].mandi_name
         /\ store[i].arrival_date < result.apmcs[k].arrival_date
         /\ store[i].price_per_quintal # result.apmcs[k].latest_price

\* C2: with a user location, find_best never returns a market whose true
\* (unrounded) great-circle distance from the user exceeds max_distance_km.
C2_TrueDistanceWithinMax ==
    WithLocation =>
        \A k \in DOMAIN result.recommendations :
            LET m == result.recommendations[k].mandi_name
            IN  /\ m \in DOMAIN APMC_COORDINATES
                /\ haversine_distance(result.user_location.lat,
                                      result.user_location.lon,
                                      APMC_COORDINATES[m].lat,
                                      APMC_COORDINATES[m].lon)
                       <= result.max_distance_km * 1000

\* C3: with a user location, find_best never returns a market that has no
\* entry in the coordinate table, and no recommendation has a null distance.
C3_NoCoordinateExcluded ==
    WithLocation =>
        \A k \in DOMAIN result.recommendations :
            /\ result.recommendations[k].mandi_name \in DOMAIN APMC_COORDINATES
            /\ result.recommendations[k].distance_km # NoDistance

\* C3 witness: a location-aware ranking over a store in which a market
\* without coordinates has a matching observation, and another is returned.
C3_Witness ==
    /\ WithLocation
    /\ \E i \in RankedRows : store[i].mandi_name \notin DOMAIN APMC_COORDINATES
    /\ result.recommendations # <<>>

\* C4: with a state filter, every entry of compare() and every
\* recommendation of find_best() has a state equal to the filter,
\* case-insensitively.
C4_StateFilterRespected ==
    /\ (IsCompare /\ result.state_filter # "") =>
           \A k \in DOMAIN result.apmcs :
               Lower(result.apmcs[k].state) = Lower(result.state_filter)
    /\ (IsBest /\ result.state_filter # "") =>
           \A k \in DOMAIN result.recommendations :
               Lower(result.recommendations[k].state) = Lower(result.state_filter)

\* The position of market `m` in the sequence of names `list`.
IndexOf(list, m) == CHOOSE k \in DOMAIN list : list[k] = m

\* C5: the entries of compare() are in non-increasing order of latest_price,
\* and entries of equal price keep the relative order in which the market
\* query produced them.  Together with the query order, which is a function
\* of the store, the two conditions fix the order of the entries.
C5_CompareOrder ==
    IsCompare =>
        \A i, j \in DOMAIN result.apmcs :
            i < j =>
                /\ result.apmcs[i].latest_price >= result.apmcs[j].latest_price
                /\ result.apmcs[i].latest_price = result.apmcs[j].latest_price =>
                       IndexOf(result.mandi_list, result.apmcs[i].mandi_name)
                           < IndexOf(result.mandi_list, result.apmcs[j].mandi_name)

\* C5 witness: three markets compared, two of them at the same price and
\* the third at a lower one.
C5_Witness ==
    /\ IsCompare
    /\ Len(result.apmcs) = 3
    /\ result.apmcs[1].latest_price = result.apmcs[2].latest_price
    /\ result.apmcs[2].latest_price > result.apmcs[3].latest_price

\* C6: the recommendations of find_best are in non-increasing order of
\* net_price_per_quintal and carry the ranks 1, 2, ..., N in list order.
C6_BestRanking ==
    IsBest =>
        LET recs == result.recommendations
        IN  /\ result.total_apmcs = Len(recs)
            /\ \A k \in DOMAIN recs :
                 /\ recs[k].rank = k
                 /\ k < Len(recs) =>
                        recs[k].net_price_per_quintal >= recs[k + 1].net_price_per_quintal

\* C6 witness: a nearer market with a lower raw price outranks a farther
\* market with a higher raw price.
C6_Witness ==
    /\ WithLocation
    /\ Len(result.recommendations) >= 2
    /\ result.recommendations[1].latest_price < result.recommendations[2].latest_price
    /\ result.recommendations[1].distance_km < result.recommendations[2].distance_km
    /\ result.recommendations[1].rank = 1

\* C7: every recommendation has net price = latest price - transport cost;
\* the transport cost is 2.5 rupees per km of distance_km with a location
\* and 0 without; without a location every market with a matching
\* observation is returned, coordinates or not, in descending price order.
C7_NetPrice ==
    IsBest =>
        LET recs == result.recommendations
        IN  /\ \A k \in DOMAIN recs :
                 /\ recs[k].net_price_per_quintal =
                        recs[k].latest_price - recs[k].transport_cost_per_quintal
                 /\ recs[k].transport_cost_per_quintal =
                        IF result.user_location # NoLocation
                        THEN 25 * recs[k].distance_km ELSE 0
            /\ result.user_location = NoLocation =>
                 /\ { recs[k].mandi_name : k \in DOMAIN recs } =
                        { store[i].mandi_name : i \in RankedRows }
                 /\ Len(recs) = Cardinality({ store[i].mandi_name : i \in RankedRows })
                 /\ \A k \in DOMAIN recs :
                        k < Len(recs) => recs[k].latest_price >= recs[k + 1].latest_price

\* C7 witness: a ranking without location that returns a market that has
\* no coordinates, at no transport cost, below a dearer market.
C7_Witness ==
    /\ IsBest
    /\ result.user_location = NoLocation
    /\ Len(result.recommendations) >= 2
    /\ \E k \in DOMAIN result.recommendations :
         /\ k > 1
         /\ result.recommendations[k].mandi_name \notin DOMAIN APMC_COORDINATES
         /\ result.recommendations[k].transport_cost_per_quintal = 0
         /\ result.recommendations[k].latest_price < result.recommendations[1].latest_price

\* C8: for a non-empty comparison, best_market is the market of the first
\* (highest-price) entry and worst_market that of the last (lowest-price)
\* entry, price_range holds their prices, price_spread = max - min >= 0, and
\* price_spread_percent is spread / worst price * 100 rounded to 2 decimals,
\* or 0 when the worst price is 0.
C8_Analytics ==
    (IsCompare /\ result.apmcs # <<>>) =>
        LET apmcs == result.apmcs
            a == result.analytics
            first == apmcs[1]
            last == apmcs[Len(apmcs)]
        IN  /\ a # None
            /\ \A k \in DOMAIN apmcs :
                 /\ apmcs[k].latest_price <= first.latest_price
                 /\ apmcs[k].latest_price >= last.latest_price
            /\ a.best_apmc = first.mandi_name
            /\ a.worst_apmc = last.mandi_name
            /\ a.price_range.max = first.latest_price
            /\ a.price_range.min = last.latest_price
            /\ a.price_spread = a.price_range.max - a.price_range.min
            /\ a.price_spread >= 0
            /\ last.latest_price = 0 => a.price_spread_percent = 0
            /\ last.latest_price > 0 =>
                 2 * Abs(a.price_spread_percent * last.latest_price
                            - a.price_spread * 10000) <= last.latest_price

\* C8 witness: a comparison of markets at different prices, the lowest
\* above 0, with a positive spread percentage.
C8_Witness ==
    /\ IsCompare
    /\ Len(result.apmcs) >= 2
    /\ result.analytics.price_spread > 0
    /\ result.analytics.price_range.min > 0
    /\ result.analytics.price_spread_percent > 0
    /\ result.analytics.best_apmc # result.analytics.worst_apmc

IsTrends == result.op = "trends" /\ result.data_points > 0

\* The rows that match the commodity and state filter of the price_trends()
\* call whose response is `result`, and those of them within
\* [now - window_days, now].
TrendRows ==
    { i \in CommodityRows(result.commodity) :
        result.state_filter # "" =>
            Lower(store[i].state) = Lower(result.state_filter) }

InWindow(i) ==
    /\ store[i].arrival_date >= now - result.period_days * TicksPerDay
    /\ store[i].arrival_date <= now

\* C9: using_full_range is true exactly when no matching observation lies
\* in the requested window while some history exists, and then every
\* matching observation is analysed; otherwise only the observations in
\* the window are analysed.
C9_FullRangeExactlyWhenWindowEmpty ==
    (result.op = "trends" /\ TrendRows # {}) =>
        LET inside == { i \in TrendRows : InWindow(i) }
        IN  /\ result.data_points > 0
            /\ result.using_full_range <=> inside = {}
            /\ result.using_full_range =>
                   /\ Range(result.prices) = TrendRows
                   /\ result.data_points = Cardinality(TrendRows)
            /\ ~result.using_full_range =>
                   /\ Range(result.prices) = inside
                   /\ result.data_points = Cardinality(inside)

\* C10: when using_full_range is false, every observation analysed has its
\* arrival_date within [now - window_days, now].
C10_AnalysedWithinWindow ==
    (IsTrends /\ ~result.using_full_range) =>
        \A k \in DOMAIN result.prices : InWindow(result.prices[k])

-----------------------------------------------------------------------------
\* C11: with at least 2 distinct dates the trend is "up" when the change
\* (second_half_mean - first_half_mean) / first_half_mean * 100 of the two
\* halves of price_history, split at len // 2, is above 2.0, "down" when it is
\* below -2.0 and "stable" otherwise, the change being 0 when the first-half
\* mean is 0; with fewer than 2 dates the trend is "insufficient_data" and
\* change_percent is 0.  The change is compared exactly, as the quotient
\* num / den of integers.
C11_TrendOfExactChange ==
    IsTrends =>
        LET h == result.price_history
            n == Len(h)
            mid == n \div 2
            avg == [k \in 1..n |-> h[k].avg_price]
            first_sum == SeqSum(SubSeq(avg, 1, mid))
            second_sum == SeqSum(SubSeq(avg, mid + 1, n))
            num == second_sum * mid - first_sum * (n - mid)
            den == first_sum * (n - mid)
        IN  IF n < 2
            THEN result.trend = "insufficient_data" /\ result.change_percent = 0
            ELSE IF first_sum = 0
            THEN result.trend = "stable" /\ result.change_percent = 0
            ELSE result.trend = IF num * 100 > 2 * den THEN "up"
                                ELSE IF num * 100 < 0 - 2 * den THEN "down"
                                ELSE "stable"

-----------------------------------------------------------------------------
(* Sell advisory properties *)

IsAdvisory == result.op = "advisory"
HasAdvice == result.op = "advisory" /\ result.has_data

\* The observations of the advisory's commodity dated within the last 30
\* days, [now - 30 days, now].
Last30Days(commodity, state) ==
    { i \in BaseQuery(commodity, state) :
        /\ store[i].arrival_date >= now - 30 * TicksPerDay
        /\ store[i].arrival_date <= now }

\* The number of observations the advisory rests on: those of the last 30
\* days, or the whole history when there are none.
AdvisoryDataPoints(commodity, state) ==
    IF Last30Days(commodity, state) # {}
    THEN Cardinality(Last30Days(commodity, state))
    ELSE Cardinality(BaseQuery(commodity, state))

\* C12: sell_advisory refuses (has_data false, recommendation and
\* best_time_to_sell null) exactly when fewer than 3 observations lie in the
\* 30-day window, or in the whole history when the window is empty.
C12_RefusedExactlyBelowThree ==
    IsAdvisory =>
        /\ ~result.has_data <=>
              AdvisoryDataPoints(result.commodity, result.state_filter) < 3
        /\ ~result.has_data =>
              result.recommendation = None /\ result.best_time_to_sell = None

\* The entry of a static table for a commodity, matched without regard to
\* letter case; `default` when there is none.
EntryOf(table, commodity, default) ==
    LET keys == { k \in DOMAIN table : Lower(k) = Lower(commodity) }
    IN  IF keys = {} THEN default ELSE table[CHOOSE k \in keys : TRUE]

HasFactor(name) == \E k \in DOMAIN result.factors : result.factors[k].factor = name

StorageFactorScore ==
    IF HasFactor("Storage economics favorable") THEN 0 - 15
    ELSE IF HasFactor("Storage not economical") THEN 10
    ELSE 0

\* C13: the score before the storage-economics factor is 50 + P + T + S + Q,
\* P from the current price against the average, T from the trend, S from
\* the commodity's storage class, Q from the commodity's seasonal entry and
\* the current month; one factor is recorded for each non-zero term.
C13_ScoreIsSumOfTerms ==
    HasAdvice =>
        LET price == IF result.current_price = NoPrice THEN 0 ELSE result.current_price
            avg == result.historical_avg
            d == price - avg
            P == IF avg <= 0 THEN 0
                 ELSE IF d * 100 > 15 * avg THEN 20
                 ELSE IF d * 100 > 5 * avg THEN 10
                 ELSE IF d * 100 < 0 - 15 * avg THEN 0 - 20
                 ELSE IF d * 100 < 0 - 5 * avg THEN 0 - 10
                 ELSE 0
            T == IF result.trend = "up" THEN 0 - 15
                 ELSE IF result.trend = "down" THEN 15 ELSE 0
            class == EntryOf(COMMODITY_STORAGE_CLASS, result.commodity, "default")
            S == IF class = "perishable" THEN 25
                 ELSE IF class = "semi_perishable" THEN 10 ELSE 0
            seasonal == EntryOf(SEASONAL_PATTERNS, result.commodity, None)
            Q == IF seasonal = None THEN 0
                 ELSE IF MonthOf(now) \in Range(seasonal.peak_months) THEN 20
                 ELSE IF MonthOf(now) \in Range(seasonal.low_months) THEN 0 - 20
                 ELSE 0
            terms == <<P, T, S, Q>>
            storage == IF StorageFactorScore = 0 THEN 0 ELSE 1
        IN  /\ result.sell_score - StorageFactorScore = 50 + P + T + S + Q
            /\ Len(result.factors) - storage
                 = Cardinality({ k \in 1..4 : terms[k] # 0 })

\* C14: the final score decides the recommendation: 70 and above SELL_NOW
\* with confidence min(95, score), 55..69 SELL_SOON with min(80, score), 30
\* and below STORE with min(90, 100 - score), 31..45 WAIT with
\* min(75, 100 - score), 46..54 FLEXIBLE with 60.
C14_RecommendationOfScore ==
    HasAdvice =>
        LET score == result.sell_score
            r == result.recommendation
        IN  /\ score >= 70 =>
                r.action = "SELL_NOW" /\ r.confidence = Min(95, score)
            /\ (55 <= score /\ score < 70) =>
                r.action = "SELL_SOON" /\ r.confidence = Min(80, score)
            /\ score <= 30 =>
                r.action = "STORE" /\ r.confidence = Min(90, 100 - score)
            /\ (31 <= score /\ score <= 45) =>
                r.action = "WAIT" /\ r.confidence = Min(75, 100 - score)
            /\ (46 <= score /\ score <= 54) =>
                r.action = "FLEXIBLE" /\ r.confidence = 60
            /\ r.action \in {"SELL_NOW", "SELL_SOON", "STORE", "WAIT", "FLEXIBLE"}

\* A score above 95 gives SELL_NOW with the confidence capped at 95.
C14_Witness ==
    /\ HasAdvice
    /\ result.sell_score > 95
    /\ result.recommendation.action = "SELL_NOW"
    /\ result.recommendation.confidence = 95

\* C15: an advisory with data for a perishable commodity records the
\* perishability factor (+25), applies no storage-economics factor and gives
\* the Immediate window with months_to_wait 0 and confidence 85.
C15_PerishableSellsImmediately ==
    (HasAdvice /\ EntryOf(COMMODITY_STORAGE_CLASS, result.commodity, "default")
                    = "perishable") =>
        /\ HasFactor("Highly perishable commodity")
        /\ StorageFactorScore = 0
        /\ result.best_time_to_sell.window = "Immediate"
        /\ result.best_time_to_sell.months_to_wait = 0
        /\ result.best_time_to_sell.confidence = 85

\* What two advisories must agree on when their commodity differs only in
\* letter case.
Advice(r) ==
    IF r.has_data
    THEN <<r.has_data, r.recommendation.action, r.recommendation.confidence,
           r.factors, r.best_time_to_sell, r.storage_class>>
    ELSE <<r.has_data>>

\* C16: two sell_advisory calls over the same store on the same date whose
\* commodity differs only in letter case return the same recommendation,
\* confidence, factors and best_time_to_sell.
C16_CaseInsensitiveAdvice ==
    \A c1 \in AdvisoryCommodities, c2 \in AdvisoryCommodities, price \in AdvisoryPrices :
        Lower(c1) = Lower(c2) =>
            Advice(get_sell_advisory(c1, price, ""))
                = Advice(get_sell_advisory(c2, price, ""))

-----------------------------------------------------------------------------
(* Refresh properties *)

IsRefresh == result.op = "refresh"

SameTriple(a, b) ==
    /\ a.commodity = b.commodity
    /\ a.mandi_name = b.mandi_name
    /\ a.arrival_date = b.arrival_date

\* C17: whatever refreshes ran, one after another or overlapping, and
\* whatever their feeds held, no two rows of the price store have the same
\* (commodity, market_name, arrival_date).
C17_NoDuplicateObservation ==
    \A i \in DOMAIN store, j \in DOMAIN store :
        i # j => ~SameTriple(store[i], store[j])

\* A step in which a refresh whose fetch failed returns: there is no API key,
\* or the HTTP request of the resumed coroutine failed.
FailedFetchReturns ==
    \/ ~api_key /\ result = NoResult /\ result' # NoResult
    \/ \E p \in Callers :
          /\ calls[p].pc = "responded"
          /\ ~calls[p].response.ok
          /\ calls'[p].pc = "idle"

\* A step in which a refresh reaches its HTTP request.
FetchStarts ==
    \E p \in Callers : calls[p].pc = "idle" /\ calls'[p].pc = "awaiting"

\* Each key's entry is as before, or was expired and is gone.
NothingPut ==
    \A k \in CacheKeys :
        \/ cache'[k] = cache[k]
        \/ cache'[k] = None /\ cache[k] # None /\ Expired(cache[k], now)

\* compare_prices, find_best_apmc, get_price_trends and get_sell_advisory
\* read the price store, the clock and nothing else of the service (the
\* engine's row order is fixed): with these unchanged they answer as before.
SameAnswers == store' = store /\ now' = now /\ tiebreak' = tiebreak

C19_ValidRecordsStored ==
    (IsRefresh /\ result.source = "data.gov.in") =>
        \A k \in DOMAIN result.api_records :
            CheckOk(result.api_records[k]) => Existing(result.api_records[k])

\* A get that has its answer and still holds the lock.
Answered(t) == threads[t].pc = "release" /\ threads[t].op = "get"

\* C20: under any interleaving of get, put and clear from concurrent threads,
\* a get returns nothing or the data of the most recent put of its key that
\* no clear followed and that is not older than the TTL when the get looks at
\* the clock; an entry older than the TTL is not returned and is gone from
\* the cache when the get ends; and the entry a get reads is a whole entry
\* as a put wrote it.
C20_GetReturnsLatestFreshPut ==
    \A t \in Threads :
        Answered(t) =>
            LET key == threads[t].key
                entry == threads[t].entry
                ret == threads[t].ret
                latest == last_put[key]
            IN  /\ ret.found =>
                      /\ latest # None
                      /\ ret.data = latest.data
                      /\ ~Expired(latest, threads[t].checked_at)
                /\ entry # None /\ Expired(entry, threads[t].checked_at) =>
                      ~ret.found /\ cache[key] = None
                /\ entry = None \/ entry = latest

\* A get returns the data of an entry while another thread waits at the lock
\* to put the same key.
C20_Witness ==
    \E t \in Threads, u \in Threads :
        /\ Answered(t)
        /\ threads[t].ret.found
        /\ threads[t].ret.data # <<>>
        /\ threads[u].pc = "acquire"
        /\ threads[u].op = "put"
        /\ threads[u].key = threads[t].key

\* C21: absence of data is returned as a value: for a commodity with no
\* matching observation, compare() returns an empty market list with
\* analytics null and total 0, find_best() returns an empty recommendation
\* list with total 0, and price_trends() returns data_points = 0 with the
\* 'No price data' message.
C21_AbsenceIsAValue ==
    /\ (IsCompare /\ CommodityRows(result.commodity) = {}) =>
          /\ result.apmcs = <<>>
          /\ result.analytics = None
          /\ result.total_apmcs = 0
    /\ (IsBest /\ CommodityRows(result.commodity) = {}) =>
          /\ result.recommendations = <<>>
          /\ result.total_apmcs = 0
    /\ (result.op = "trends" /\ CommodityRows(result.commodity) = {}) =>
          /\ result.data_points = 0
          /\ result.message = "No price data found for this commodity"

\* C21 witness: price_trends() for a commodity the store has no observation
\* of, while it holds observations of another commodity.
C21_Witness ==
    /\ result.op = "trends"
    /\ store # <<>>
    /\ CommodityRows(result.commodity) = {}
    /\ result.data_points = 0

\* The prices of the sample in thousandths, and these in ascending order.
SamplePrices == [k \in DOMAIN sample |-> sample[k].price]

SortedPrices ==
    LET pos(i) == 1 + Cardinality({ j \in DOMAIN sample :
                        \/ sample[j].price < sample[i].price
                        \/ sample[j].price = sample[i].price /\ j < i })
    IN  [k \in DOMAIN sample |-> sample[CHOOSE i \in DOMAIN sample : pos(i) = k].price]

\* C22: for every non-empty sample of positive prices, statistics() returns
\* min <= mean <= max and std_dev >= 0, with the median between min and max
\* (between the two middle elements when the count is even, the middle
\* element when it is odd); for a constant sample, a single value included,
\* std_dev = 0 and coefficient_of_variation = 0.
C22_StatisticsWithinSample ==
    (result.op = "statistics" /\ sample # <<>>) =>
        LET s == result.statistics
            n == Len(sample)
            lower == SortedPrices[(n + 1) \div 2]
            upper == SortedPrices[n \div 2 + 1]
        IN  /\ s.min <= s.mean /\ s.mean <= s.max
            /\ s.std_dev >= 0
            /\ s.min <= s.median /\ s.median <= s.max
            /\ 10 * s.median >= lower - 5 /\ 10 * s.median <= upper + 5
            /\ (\A k \in DOMAIN sample : sample[k].price = sample[1].price) =>
                   s.std_dev = 0 /\ s.coefficient_of_variation = 0

\* The positions of the sample that lie strictly outside the fences
\* Q1 - 1.5 * IQR and Q3 + 1.5 * IQR, computed exactly (all terms doubled).
BelowFence(i) ==
    LET n == Len(sample)
        q1 == SortedPrices[n \div 4 + 1]
        q3 == SortedPrices[(3 * n) \div 4 + 1]
    IN  2 * sample[i].price < 2 * q1 - 3 * (q3 - q1)

AboveFence(i) ==
    LET n == Len(sample)
        q1 == SortedPrices[n \div 4 + 1]
        q3 == SortedPrices[(3 * n) \div 4 + 1]
    IN  2 * sample[i].price > 2 * q3 + 3 * (q3 - q1)

\* C23: detect_outliers returns an empty list for fewer than 4 values;
\* otherwise it returns exactly the values strictly below Q1 - 1.5 * IQR
\* (tagged low) or strictly above Q3 + 1.5 * IQR (tagged high), in original
\* order, a value lying exactly on a fence is not flagged, and each flagged
\* value carries the market of the record at the same position.
C23_OutliersAreExactlyBeyondFences ==
    result.op = "outliers" =>
        LET out == result.outliers
        IN  IF Len(sample) < 4
            THEN out = <<>>
            ELSE /\ { out[k].index : k \in DOMAIN out }
                       = { i \in DOMAIN sample : BelowFence(i) \/ AboveFence(i) }
                 /\ \A k \in DOMAIN out :
                       /\ k > 1 => out[k - 1].index < out[k].index
                       /\ out[k].type = (IF BelowFence(out[k].index) THEN "low" ELSE "high")
                       /\ out[k].mandi_name = sample[out[k].index].mandi_name

\* C24: price_history has exactly one entry per distinct calendar date among
\* the analysed observations, in strictly ascending date order; the records
\* of an entry is the number of observations on its date, so the records sum
\* to data_points and unique_dates is the length of price_history; and each
\* entry satisfies min_price <= avg_price <= max_price.
C24_PriceHistoryGroupsByDate ==
    /\ IsTrends =>
          LET h == result.price_history
              on(d) == { k \in DOMAIN result.prices :
                            DateOf(store[result.prices[k]].arrival_date) = d }
          IN  /\ { h[k].date : k \in DOMAIN h }
                    = { DateOf(store[result.prices[k]].arrival_date) :
                            k \in DOMAIN result.prices }
              /\ \A k \in DOMAIN h :
                    /\ k > 1 => h[k - 1].date < h[k].date
                    /\ h[k].records = Cardinality(on(h[k].date))
                    /\ h[k].min_price <= h[k].avg_price
                    /\ h[k].avg_price <= h[k].max_price
              /\ SeqSum([k \in DOMAIN h |-> h[k].records]) = result.data_points
              /\ result.unique_dates = Len(h)
    /\ result.op = "history" =>
          /\ result.entry.records = Len(sample)
          /\ result.entry.min_price <= result.entry.avg_price
          /\ result.entry.avg_price <= result.entry.max_price

\* C28: for a commodity whose storage class is perishable, sell_advisory
\* never returns the action STORE: the action agrees with the Immediate
\* best-selling window and with the perishability factor's advice of an
\* immediate sale, whatever the month, the trend and the current price.
C28_PerishableNeverStored ==
    (HasAdvice /\ EntryOf(COMMODITY_STORAGE_CLASS, result.commodity, "default")
                    = "perishable") =>
        result.recommendation.action # "STORE"

-----------------------------------------------------------------------------
(* Best-selling window properties *)

IsWindow == result.op = "window"

\* The month `offset` months after `month`.
MonthAfter(month, offset) == ((month + offset - 1) % 12) + 1

\* The smallest offset in 1..11 from the month to a peak month.
NextPeakOffset(peak_months, month) ==
    SetMin({ d \in 1..11 : MonthAfter(month, d) \in Range(peak_months) })

\* C26: for a non-perishable commodity with a seasonal entry, the window is
\* 'now / peak season' (months_to_wait 0, confidence 80) when the current
\* month is a peak month; otherwise, with d the smallest offset in 1..11 to a
\* peak month, the short 'within 1-2 months' window (confidence 70) exactly
\* when the class is semi_perishable and d > 3, and else the full peak range
\* from the first to the last peak month with months_to_wait = d and
\* expected_price_rise_pct (confidence 75).
C26_SeasonalWindow ==
    (IsWindow /\ result.storage_class # "perishable"
              /\ Seasonal(result.commodity) # None) =>
        LET seasonal == Seasonal(result.commodity)
            peaks == seasonal.peak_months
            month == result.current_month
            w == result.best_time_to_sell
            d == NextPeakOffset(peaks, month)
        IN  IF month \in Range(peaks)
            THEN /\ w.window = "Now - Peak Season"
                 /\ w.months_to_wait = 0
                 /\ w.confidence = 80
            ELSE IF result.storage_class = "semi_perishable" /\ d > 3
            THEN /\ w.window = "Within 1-2 months"
                 /\ w.confidence = 70
            ELSE /\ w.window = "Peak season"
                 /\ w.start_month = peaks[1]
                 /\ w.end_month = peaks[Len(peaks)]
                 /\ w.months_to_wait = d
                 /\ w.expected_price_rise_pct = seasonal.expected_rise_pct
                 /\ w.confidence = 75

\* December, Wheat: the peak season of May to August is 5 months ahead,
\* across the end of the year.
C26_Witness ==
    /\ IsWindow
    /\ result.commodity = "Wheat"
    /\ result.current_month = 12
    /\ result.best_time_to_sell.window = "Peak season"
    /\ result.best_time_to_sell.months_to_wait = 5

\* C27: for a non-perishable commodity with no seasonal entry, the window
\* depends only on the last 5 daily averages of price_history: if each is <=
\* the next, 'wait 2-4 weeks' (confidence 65, end month the month after the
\* current one); else if each is >= the next, immediate sale (confidence
\* 70); otherwise, and whenever there are fewer than 5 daily points, the
\* flexible window (confidence 50) whose end month is 2 months after the
\* current month, wrapping past December.
C27_HistoryWindow ==
    (IsWindow /\ result.storage_class # "perishable"
              /\ Seasonal(result.commodity) = None) =>
        LET n == Len(sample)
            last5 == [k \in 1..5 |-> sample[n - 5 + k].avg_price]
            month == result.current_month
            w == result.best_time_to_sell
        IN  IF n >= 5 /\ NonDecreasing(last5)
            THEN /\ w.window = "Wait 2-4 weeks"
                 /\ w.confidence = 65
                 /\ w.end_month = MonthAfter(month, 1)
            ELSE IF n >= 5 /\ NonIncreasing(last5)
            THEN /\ w.window = "Immediate"
                 /\ w.confidence = 70
            ELSE /\ w.window = "Flexible"
                 /\ w.confidence = 50
                 /\ w.end_month = MonthAfter(month, 2)

\* C29: the two computations of the next peak agree: for every current month
\* and every seasonal entry, when the current month is not a peak month and
\* the scoring loop finds months_to_peak = m with 1 <= m <= 6, the distance
\* of the best-selling window is m; and when the scoring loop finds no peak
\* within 6 months, that distance is between 7 and 11.
C29_NextPeakAgrees ==
    (IsWindow /\ Seasonal(result.commodity) # None
              /\ result.current_month \notin Range(Seasonal(result.commodity).peak_months)) =>
        LET m == result.months_to_peak
            d == MonthsToWait(Seasonal(result.commodity).peak_months,
                              result.current_month)
            w == result.best_time_to_sell
        IN  /\ m \in 0..6
            /\ m >= 1 => d = m
            /\ m = 0 => d \in 7..11
            /\ w.window = "Peak season" => w.months_to_wait = d

\* November, Maize: both find the peak of April 5 months ahead, across the
\* end of the year.
C29_Witness ==
    /\ IsWindow
    /\ result.commodity = "Maize"
    /\ result.current_month = 11
    /\ result.months_to_peak = 5
    /\ result.best_time_to_sell.months_to_wait = 5

-----------------------------------------------------------------------------
(* Storage economics *)

\* The offsets 1..6 after the month that fall on a peak month.
PeaksAhead(seasonal, month) ==
    { m \in 1..6 : MonthAfter(month, m) \in Range(seasonal.peak_months) }

\* C25: the storage-economics adjustment is applied if and only if the
\* commodity has a seasonal entry, its storage class is not perishable and
\* some month at offset 1..6 after the current month (wrapping December to
\* January) is a peak month; months_to_peak is the smallest such offset; the
\* adjustment is -15 when expected_rise_pct / 100 * current_price -
\* storage_cost_per_month * months_to_peak > 0 and +10 otherwise, a net gain
\* of exactly 0 included.  Prices are in hundredths: both sides times 10000.
C25_StorageEconomics ==
    HasAdvice =>
        LET seasonal == Seasonal(result.commodity)
            month == MonthOf(now)
            price == IF result.current_price = NoPrice THEN 0 ELSE result.current_price
            applies == /\ seasonal # None
                       /\ result.storage_class # "perishable"
                       /\ PeaksAhead(seasonal, month) # {}
            months_to_peak == SetMin(PeaksAhead(seasonal, month))
            net_gain == seasonal.expected_rise_pct * price
                           - result.storage_cost_per_month * months_to_peak * 10000
        IN  /\ StorageFactorScore # 0 <=> applies
            /\ applies => StorageFactorScore = (IF net_gain > 0 THEN 0 - 15 ELSE 10)

\* April, Onion at Rs 800.00: the peak of August is 4 months ahead, the gain
\* of 40% is Rs 320 and so is the storage at Rs 80 a month: a net gain of 0
\* and the adjustment +10.
C25_Witness ==
    /\ HasAdvice
    /\ result.commodity = "Onion"
    /\ MonthOf(now) = 4
    /\ result.current_price = 80000
    /\ HasFactor("Storage not economical")

-----------------------------------------------------------------------------
(* Rate limiter properties *)

\* The requests of a client admitted in the window of window_seconds that
\* ends at t: the timestamps in (t - WindowTicks, t].
AdmittedWithin(ip, t) ==
    Cardinality({ k \in DOMAIN admitted[ip] :
                    admitted[ip][k] > t - WindowTicks /\ admitted[ip][k] <= t })

\* What a request that is answered in this step meets and gets.
DispatchStep ==
    (result = NoResult /\ result'.op = "dispatch") =>
        LET ip == result'.client
            held == AdmittedWithin(ip, clock)
        IN  IF Excluded(result'.path)
            THEN /\ result'.status = 200
                 /\ requests' = requests
                 /\ admitted' = admitted
            ELSE IF held >= max_requests
            THEN /\ result'.status = 429
                 /\ result'.retry_after >= 1
                 /\ Len(requests'[ip]) = held
                 /\ clock \notin Range(requests'[ip]) \ Range(requests[ip])
                 /\ admitted' = admitted
            ELSE /\ result'.status = 200
                 /\ admitted'[ip] = Append(admitted[ip], clock)

\* C30: for each client IP the rate limiter admits at most max_requests
\* requests to non-excluded paths within any window of window_seconds; a
\* request that arrives when the window already holds max_requests admitted
\* requests gets a 429 response with a Retry-After of at least 1 second and
\* is not itself recorded against the quota; requests to excluded paths are
\* never counted or rejected.
C30_AtMostMaxRequestsPerWindow ==
    /\ [](\A ip \in Clients : \A t \in 0..MaxClock :
              AdmittedWithin(ip, t) <= max_requests)
    /\ [][DispatchStep]_vars

\* A client that used up its window is rejected, and admitted again once the
\* window has moved past its first request.
C30_Witness ==
    /\ result.op = "dispatch"
    /\ result.status = 200
    /\ ~Excluded(result.path)
    /\ Len(admitted[result.client]) = max_requests + 1
    /\ Len(requests[result.client]) < Len(admitted[result.client])

====
